---- MODULE Spec2Model ----
(***************************************************************************)
(* Model of dlogcover_rs: the coverage calculator                          *)
(* (core/coverage/coverage_calculator.rs), the structural extractor        *)
(* (core/ast_analyzer/ast_analyzer.rs) and the call-site identifier        *)
(* (core/log_identifier/log_identifier.rs).                                *)
(*                                                                         *)
(* An f64 percentage is modelled as the exact rational <<num, den>> in     *)
(* lowest terms; floating-point rounding is not modelled.                  *)
(***************************************************************************)
EXTENDS Integers, Sequences, FiniteSets, TLC

VARIABLES
    pc,               \* position of the run
    cli_options,      \* CliOptions, the parsed command line
    config_json,      \* the configuration document read by load_config
    fs,               \* the entries of the file system below the scan roots
    trees,            \* the front end's syntax tree of each file's content
    front_end,        \* what the front end reports when the extractor parses
    ident_env,        \* what main and the identifier meet for each file
    config,           \* ConfigManager.config, the loaded Config
    exclude_patterns, \* SourceManager.exclude_patterns, the compiled regexes
    source_files,     \* SourceManager.source_files, the collected files
    report,           \* what the reporter has written
    held,             \* front-end resources acquired and not yet released
    file_idx,         \* analyze_files: index of the next source file
    ident_pending,    \* main: keys of ast_results not yet identified
    cur_file,         \* the file the running traversal works on
    cursor,           \* index (pre-order) of the next cursor of the tree
    stack,            \* the active visitor callbacks, innermost last
    data,             \* VisitorContext of the extractor
    context,          \* LogVisitorContext of the identifier
    log_loc,          \* is_location_within_range: argument log_loc
    item_start_loc,   \* is_location_within_range: argument item_start_loc
    item_end_loc,     \* is_location_within_range: argument item_end_loc
    range_result,     \* is_location_within_range: returned value
    ast_results,      \* HashMap<PathBuf, FileAstInfo>
    log_sites_map,    \* HashMap<PathBuf, Vec<LogCallSite>>
    pending,          \* keys of ast_results the for loop has not reached yet
    project_coverage, \* the ProjectCoverage being built
    calc_result       \* "none" until calculate_project_coverage returns, then "Ok"

rangeVars == <<log_loc, item_start_loc, item_end_loc, range_result>>

calcVars == <<pending, project_coverage, calc_result>>

envVars == <<cli_options, config_json, fs, trees, front_end, ident_env>>

mainVars == <<exclude_patterns, source_files, report>>

visitVars == <<cur_file, cursor, stack, data, context>>

vars == <<pc, config, file_idx, ident_pending, ast_results, log_sites_map,
          rangeVars, calcVars, envVars, held, mainVars, visitVars>>

----------------------------------------------------------------------------
(* Bounds of the model *)

MaxLine == 2
MaxCol == 2
MaxItems == 2
MaxNodes == 3

----------------------------------------------------------------------------
(* Data model *)

None == "None"

Paths == {"a.cpp", "b.cpp"}

FuncNames == {"f", "g"}

SourceLocation(path, line, column) ==
    [file_path |-> path, line |-> line, column |-> column]

FunctionInfo(name, qn, s, e, is_method, class, hb) ==
    [name |-> name, qualified_name |-> qn, start_location |-> s,
     end_location |-> e, is_method |-> is_method, class_name |-> class,
     has_body |-> hb]

BranchInfo(parent, kind, s, e) ==
    [parent_function_qualified_name |-> parent, branch_type |-> kind,
     start_location |-> s, end_location |-> e]

ExceptionInfo(parent, kind, s, e) ==
    [parent_function_qualified_name |-> parent, exception_type |-> kind,
     caught_type |-> None, start_location |-> s, end_location |-> e]

FileAstInfoNew(path) ==
    [file_path |-> path, functions |-> <<>>, branches |-> <<>>,
     exceptions |-> <<>>]

LogCallSite(fname, loc, level, type, parent, class) ==
    [function_name |-> fname, source_location |-> loc, log_level |-> level,
     log_type |-> type, parent_function_qualified_name |-> parent,
     containing_class_name |-> class]

EmptyMap == [q \in {} |-> {}]

MapPut(m, k, v) == [q \in (DOMAIN m) \cup {k} |-> IF q = k THEN v ELSE m[q]]

----------------------------------------------------------------------------
(* CoverageMetrics *)

RECURSIVE Gcd(_, _)
Gcd(a, b) == IF b = 0 THEN a ELSE Gcd(b, a % b)

\* (covered as f64 / total as f64) * 100.0, as a rational in lowest terms
Ratio100(covered, total) ==
    LET g == Gcd(covered * 100, total)
    IN  <<(covered * 100) \div g, total \div g>>

Hundred == <<100, 1>>

Zero == <<0, 1>>

CoverageMetricsDefault == [total |-> 0, covered |-> 0, percentage |-> Zero]

CoverageMetricsNew(total, covered) ==
    [total |-> total, covered |-> covered,
     percentage |-> IF total > 0 THEN Ratio100(covered, total) ELSE Hundred]

calculate_percentage(m) ==
    [m EXCEPT !.percentage =
        IF m.total > 0 THEN Ratio100(m.covered, m.total) ELSE Hundred]

PerFileCoverageNew(path) ==
    [file_path |-> path,
     functions |-> CoverageMetricsDefault,
     branches |-> CoverageMetricsDefault,
     exceptions |-> CoverageMetricsDefault,
     overall |-> CoverageMetricsDefault,
     uncovered_functions |-> <<>>,
     uncovered_branches |-> <<>>,
     uncovered_exceptions |-> <<>>]

ProjectCoverageDefault ==
    [files |-> <<>>,
     total_functions |-> CoverageMetricsDefault,
     total_branches |-> CoverageMetricsDefault,
     total_exceptions |-> CoverageMetricsDefault,
     project_overall |-> CoverageMetricsDefault]

----------------------------------------------------------------------------
(* CoverageCalculator *)

\* mutant: the start column is excluded
is_location_within_range_Exclusive(l, s, e) ==
    IF l.line < s.line \/ l.line > e.line THEN FALSE
    ELSE IF l.line = s.line /\ l.column <= s.column THEN FALSE
    ELSE IF l.line = e.line /\ l.column > e.column THEN FALSE
    ELSE TRUE

is_location_within_range(l, s, e) ==
    IF l.line < s.line \/ l.line > e.line THEN FALSE
    ELSE IF l.line = s.line /\ l.column < s.column THEN FALSE
    ELSE IF l.line = e.line /\ l.column > e.column THEN FALSE
    ELSE TRUE

\* mutant: the qualified-name rule is left out
FunctionIsCovered_SpanOnly(func_info, log_sites) ==
    \E i \in 1..Len(log_sites) :
        is_location_within_range(log_sites[i].source_location,
                                 func_info.start_location,
                                 func_info.end_location)

\* mutant: only the last call site of the list is looked at
FunctionIsCovered_LastSite(func_info, log_sites) ==
    /\ log_sites # <<>>
    /\ LET s == log_sites[Len(log_sites)]
       IN  \/ s.parent_function_qualified_name = func_info.qualified_name
           \/ is_location_within_range(s.source_location,
                                       func_info.start_location,
                                       func_info.end_location)

\* mutant: a call site of level Fatal does not count
FunctionIsCovered_LevelAware(func_info, log_sites) ==
    \E i \in 1..Len(log_sites) :
        /\ log_sites[i].log_level # "Fatal"
        /\ \/ log_sites[i].parent_function_qualified_name = func_info.qualified_name
           \/ is_location_within_range(log_sites[i].source_location,
                                       func_info.start_location,
                                       func_info.end_location)

\* log_sites.iter().any(...) of the function loop
FunctionIsCovered(func_info, log_sites) ==
    \E i \in 1..Len(log_sites) :
        \/ log_sites[i].parent_function_qualified_name = func_info.qualified_name
        \/ is_location_within_range(log_sites[i].source_location,
                                    func_info.start_location,
                                    func_info.end_location)

\* mutant: a call site of the same parent function covers the item too
ItemIsCovered_OrName(item, log_sites) ==
    \E i \in 1..Len(log_sites) :
        \/ log_sites[i].parent_function_qualified_name =
              item.parent_function_qualified_name
        \/ is_location_within_range(log_sites[i].source_location,
                                    item.start_location, item.end_location)

\* log_sites.iter().any(...) of the branch loop and of the exception loop
ItemIsCovered(item, log_sites) ==
    \E i \in 1..Len(log_sites) :
        is_location_within_range(log_sites[i].source_location,
                                 item.start_location, item.end_location)

RECURSIVE CountBody(_, _)
\* file_ast.functions.iter().filter(|f| f.has_body).count()
CountBody(functions, i) ==
    IF i > Len(functions) THEN 0
    ELSE (IF functions[i].has_body THEN 1 ELSE 0) + CountBody(functions, i + 1)

RECURSIVE FunctionLoop(_, _, _, _, _)
\* for func_info in file_ast.functions.iter().filter(|f| f.has_body) { ... }
FunctionLoop(functions, log_sites, i, metrics, uncovered) ==
    IF i > Len(functions) THEN [metrics |-> metrics, uncovered |-> uncovered]
    ELSE IF ~functions[i].has_body
    THEN FunctionLoop(functions, log_sites, i + 1, metrics, uncovered)
    ELSE IF FunctionIsCovered(functions[i], log_sites)
    THEN FunctionLoop(functions, log_sites, i + 1,
                      [metrics EXCEPT !.covered = @ + 1], uncovered)
    ELSE FunctionLoop(functions, log_sites, i + 1, metrics,
                      Append(uncovered, functions[i]))

RECURSIVE ItemLoop_Prepend(_, _, _, _, _)
\* mutant: an uncovered item is put at the front of the list
ItemLoop_Prepend(items, log_sites, i, metrics, uncovered) ==
    IF i > Len(items) THEN [metrics |-> metrics, uncovered |-> uncovered]
    ELSE IF ItemIsCovered(items[i], log_sites)
    THEN ItemLoop_Prepend(items, log_sites, i + 1,
                          [metrics EXCEPT !.covered = @ + 1], uncovered)
    ELSE ItemLoop_Prepend(items, log_sites, i + 1, metrics,
                          <<items[i]>> \o uncovered)

RECURSIVE ItemLoop(_, _, _, _, _)
\* for branch_info in &file_ast.branches { ... } and
\* for exc_info in &file_ast.exceptions { ... }
ItemLoop(items, log_sites, i, metrics, uncovered) ==
    IF i > Len(items) THEN [metrics |-> metrics, uncovered |-> uncovered]
    ELSE IF ItemIsCovered(items[i], log_sites)
    THEN ItemLoop(items, log_sites, i + 1,
                  [metrics EXCEPT !.covered = @ + 1], uncovered)
    ELSE ItemLoop(items, log_sites, i + 1, metrics,
                  Append(uncovered, items[i]))

calculate_file_coverage(file_ast, log_sites) ==
    LET new == PerFileCoverageNew(file_ast.file_path)
        fl == FunctionLoop(file_ast.functions, log_sites, 1,
                           [new.functions EXCEPT
                               !.total = CountBody(file_ast.functions, 1)],
                           new.uncovered_functions)
        bl == ItemLoop(file_ast.branches, log_sites, 1,
                       [new.branches EXCEPT !.total = Len(file_ast.branches)],
                       new.uncovered_branches)
        el == ItemLoop(file_ast.exceptions, log_sites, 1,
                       [new.exceptions EXCEPT
                           !.total = Len(file_ast.exceptions)],
                       new.uncovered_exceptions)
        fm == calculate_percentage(fl.metrics)
        bm == calculate_percentage(bl.metrics)
        em == calculate_percentage(el.metrics)
        total_items == fm.total + bm.total + em.total
        covered_items == fm.covered + bm.covered + em.covered
    IN  [new EXCEPT
            !.functions = fm,
            !.branches = bm,
            !.exceptions = em,
            !.overall = CoverageMetricsNew(total_items, covered_items),
            !.uncovered_functions = fl.uncovered,
            !.uncovered_branches = bl.uncovered,
            !.uncovered_exceptions = el.uncovered]

\* mutant: a file without an entry falls back to the list of another file
LogSitesForFile_AnyFile(map, path) ==
    IF path \in DOMAIN map THEN map[path]
    ELSE IF DOMAIN map # {} THEN map[CHOOSE k \in DOMAIN map : TRUE]
    ELSE <<>>

\* the log sites of a file: log_sites_map.get(file_path).unwrap_or(&empty)
LogSitesForFile(map, path) == IF path \in DOMAIN map THEN map[path] ELSE <<>>

\* calculate_project_coverage, up to the is_empty test
CalcBegin ==
    /\ pc = "ready"
    /\ project_coverage' = ProjectCoverageDefault
    /\ IF ast_results = EmptyMap
       THEN /\ pc' = "done"
            /\ calc_result' = "Ok"
            /\ pending' = {}
       ELSE /\ pc' = "loop"
            /\ calc_result' = "none"
            /\ pending' = DOMAIN ast_results
    /\ UNCHANGED <<config, file_idx, ident_pending, ast_results,
                   log_sites_map, rangeVars, envVars, held, mainVars, visitVars>>

\* mutant: the exceptions of a file are not added to the project totals
CalcFile_DropExceptions(file_path) ==
    /\ pc = "loop"
    /\ file_path \in pending
    /\ LET file_cov == calculate_file_coverage(
                           ast_results[file_path],
                           LogSitesForFile(log_sites_map, file_path))
       IN  project_coverage' =
             [project_coverage EXCEPT
                !.total_functions.total = @ + file_cov.functions.total,
                !.total_functions.covered = @ + file_cov.functions.covered,
                !.total_branches.total = @ + file_cov.branches.total,
                !.total_branches.covered = @ + file_cov.branches.covered,
                !.files = Append(@, file_cov)]
    /\ pending' = pending \ {file_path}
    /\ UNCHANGED <<pc, config, file_idx, ident_pending, ast_results,
                   log_sites_map, calc_result, rangeVars, envVars, held, mainVars, visitVars>>

\* mutant: the PerFileCoverage of a file is pushed twice
CalcFile_PushTwice(file_path) ==
    /\ pc = "loop"
    /\ file_path \in pending
    /\ LET file_cov == calculate_file_coverage(
                           ast_results[file_path],
                           LogSitesForFile(log_sites_map, file_path))
       IN  project_coverage' =
             [project_coverage EXCEPT
                !.total_functions.total = @ + file_cov.functions.total,
                !.total_functions.covered = @ + file_cov.functions.covered,
                !.total_branches.total = @ + file_cov.branches.total,
                !.total_branches.covered = @ + file_cov.branches.covered,
                !.total_exceptions.total = @ + file_cov.exceptions.total,
                !.total_exceptions.covered = @ + file_cov.exceptions.covered,
                !.files = Append(Append(@, file_cov), file_cov)]
    /\ pending' = pending \ {file_path}
    /\ UNCHANGED <<pc, config, file_idx, ident_pending, ast_results,
                   log_sites_map, calc_result, rangeVars, envVars, held, mainVars, visitVars>>

\* one iteration of: for (file_path, file_ast_info) in ast_results
\* (a HashMap yields its entries in an unspecified order)
CalcFile(file_path) ==
    /\ pc = "loop"
    /\ file_path \in pending
    /\ LET file_cov == calculate_file_coverage(
                           ast_results[file_path],
                           LogSitesForFile(log_sites_map, file_path))
       IN  project_coverage' =
             [project_coverage EXCEPT
                !.total_functions.total = @ + file_cov.functions.total,
                !.total_functions.covered = @ + file_cov.functions.covered,
                !.total_branches.total = @ + file_cov.branches.total,
                !.total_branches.covered = @ + file_cov.branches.covered,
                !.total_exceptions.total = @ + file_cov.exceptions.total,
                !.total_exceptions.covered = @ + file_cov.exceptions.covered,
                !.files = Append(@, file_cov)]
    /\ pending' = pending \ {file_path}
    /\ UNCHANGED <<pc, config, file_idx, ident_pending, ast_results,
                   log_sites_map, calc_result, rangeVars, envVars, held, mainVars, visitVars>>

\* calculate_project_coverage after the loop
CalcFinish ==
    /\ pc = "loop"
    /\ pending = {}
    /\ LET tf == calculate_percentage(project_coverage.total_functions)
           tb == calculate_percentage(project_coverage.total_branches)
           te == calculate_percentage(project_coverage.total_exceptions)
           overall_total_items == tf.total + tb.total + te.total
           overall_covered_items == tf.covered + tb.covered + te.covered
       IN  project_coverage' =
             [project_coverage EXCEPT
                !.total_functions = tf,
                !.total_branches = tb,
                !.total_exceptions = te,
                !.project_overall = CoverageMetricsNew(overall_total_items,
                                                       overall_covered_items)]
    /\ pc' = "done"
    /\ calc_result' = "Ok"
    /\ UNCHANGED <<config, file_idx, ident_pending, ast_results,
                   log_sites_map, pending, rangeVars, envVars, held, mainVars, visitVars>>

----------------------------------------------------------------------------
(* The input maps of calculate_project_coverage, for SpecCalc *)

CalcLocs == {<<1, 1>>, <<1, 2>>, <<2, 1>>}

CalcSpans == {<<<<1, 1>>, <<1, 1>>>>, <<<<1, 2>>, <<2, 1>>>>,
              <<<<1, 1>>, <<2, 1>>>>}

LocOf(path, lc) == SourceLocation(path, lc[1], lc[2])

NumItems ==
    LET SumOver(m, Size(_)) ==
            LET RECURSIVE S(_)
                S(ks) == IF ks = {} THEN 0
                         ELSE LET k == CHOOSE x \in ks : TRUE
                              IN  Size(m[k]) + S(ks \ {k})
            IN  S(DOMAIN m)
        AstSize(a) == Len(a.functions) + Len(a.branches) + Len(a.exceptions)
    IN  SumOver(ast_results, AstSize) + SumOver(log_sites_map, Len)

InputUnchanged ==
    UNCHANGED <<pc, config, file_idx, ident_pending, rangeVars, calcVars,
                envVars, held, mainVars, visitVars>>

InputAddFile(p) ==
    /\ pc = "ready"
    /\ p \notin DOMAIN ast_results
    /\ ast_results' = MapPut(ast_results, p, FileAstInfoNew(p))
    /\ UNCHANGED log_sites_map
    /\ InputUnchanged

InputAddFunction(p, qn, span, hb) ==
    /\ pc = "ready"
    /\ p \in DOMAIN ast_results
    /\ NumItems < MaxItems
    /\ ast_results' =
         [ast_results EXCEPT ![p].functions =
             Append(@, FunctionInfo(qn, qn, LocOf(p, span[1]), LocOf(p, span[2]),
                                   FALSE, None, hb))]
    /\ UNCHANGED log_sites_map
    /\ InputUnchanged

InputAddBranch(p, span) ==
    /\ pc = "ready"
    /\ p \in DOMAIN ast_results
    /\ NumItems < MaxItems
    /\ ast_results' =
         [ast_results EXCEPT ![p].branches =
             Append(@, BranchInfo("f", "if", LocOf(p, span[1]), LocOf(p, span[2])))]
    /\ UNCHANGED log_sites_map
    /\ InputUnchanged

InputAddException(p, span) ==
    /\ pc = "ready"
    /\ p \in DOMAIN ast_results
    /\ NumItems < MaxItems
    /\ ast_results' =
         [ast_results EXCEPT ![p].exceptions =
             Append(@, ExceptionInfo("f", "try", LocOf(p, span[1]), LocOf(p, span[2])))]
    /\ UNCHANGED log_sites_map
    /\ InputUnchanged

InputAddLogEntry(p) ==
    /\ pc = "ready"
    /\ p \notin DOMAIN log_sites_map
    /\ log_sites_map' = MapPut(log_sites_map, p, <<>>)
    /\ UNCHANGED ast_results
    /\ InputUnchanged

InputAddLogSite(p, parent, lc) ==
    /\ pc = "ready"
    /\ p \in DOMAIN log_sites_map
    /\ NumItems < MaxItems
    /\ log_sites_map' =
         [log_sites_map EXCEPT ![p] =
             Append(@, LogCallSite("qDebug", LocOf(p, lc), "Debug", "Qt",
                                   parent, None))]
    /\ UNCHANGED ast_results
    /\ InputUnchanged

NoLoc == SourceLocation("", 0, 0)

NoConfig == [none |-> TRUE]

NoData == [none |-> TRUE]

NoCli == [none |-> TRUE]

NoReport == [none |-> TRUE]

\* the variables a specification does not use
IdleRange ==
    /\ log_loc = NoLoc
    /\ item_start_loc = NoLoc
    /\ item_end_loc = NoLoc
    /\ range_result = FALSE

IdleCalc ==
    /\ pending = {}
    /\ project_coverage = ProjectCoverageDefault
    /\ calc_result = "none"

IdleVisit ==
    /\ cur_file = None
    /\ cursor = 0
    /\ stack = <<>>
    /\ data = NoData
    /\ context = NoData

IdlePipeline ==
    /\ cli_options = NoCli
    /\ config_json = NoConfig
    /\ fs = {}
    /\ trees = EmptyMap
    /\ front_end = EmptyMap
    /\ ident_env = EmptyMap
    /\ config = NoConfig
    /\ exclude_patterns = <<>>
    /\ source_files = <<>>
    /\ report = NoReport
    /\ held = {}
    /\ file_idx = 0
    /\ ident_pending = {}
    /\ IdleVisit

InitCalc ==
    /\ pc = "ready"
    /\ ast_results = EmptyMap
    /\ log_sites_map = EmptyMap
    /\ IdleRange
    /\ IdleCalc
    /\ IdlePipeline

NextCalc ==
    \/ \E p \in Paths : InputAddFile(p)
    \/ \E p \in Paths, qn \in FuncNames, span \in CalcSpans :
          InputAddFunction(p, qn, span, TRUE)
    \/ \E p \in Paths : InputAddFunction(p, "f", <<<<1, 1>>, <<2, 1>>>>, FALSE)
    \/ \E p \in Paths, span \in CalcSpans : InputAddBranch(p, span)
    \/ \E p \in Paths, span \in CalcSpans : InputAddException(p, span)
    \/ \E p \in Paths : InputAddLogEntry(p)
    \/ \E p \in Paths, parent \in FuncNames, lc \in CalcLocs :
          InputAddLogSite(p, parent, lc)
    \/ CalcBegin
    \/ \E p \in Paths : CalcFile(p)
    \/ CalcFinish

SpecCalc == InitCalc /\ [][NextCalc]_vars

----------------------------------------------------------------------------
(* is_location_within_range applied to arbitrary locations, for SpecRange *)

RangeLocs == {SourceLocation("a.cpp", l, c) : l \in 1..MaxLine, c \in 0..MaxCol}

InitRange ==
    /\ pc = "range"
    /\ log_loc \in RangeLocs
    /\ item_start_loc \in RangeLocs
    /\ item_end_loc \in RangeLocs
    /\ range_result = FALSE
    /\ ast_results = EmptyMap
    /\ log_sites_map = EmptyMap
    /\ IdleCalc
    /\ IdlePipeline

CheckRange ==
    /\ pc = "range"
    /\ range_result' =
          is_location_within_range(log_loc, item_start_loc, item_end_loc)
    /\ pc' = "ranged"
    /\ UNCHANGED <<log_loc, item_start_loc, item_end_loc, config, file_idx,
                   ident_pending, ast_results, log_sites_map, calcVars,
                   envVars, held, mainVars, visitVars>>

NextRange == CheckRange

SpecRange == InitRange /\ [][NextRange]_vars

----------------------------------------------------------------------------
(* Strings *)

\* Vec<String>::contains
Contains(list, x) == \E i \in 1..Len(list) : list[i] = x

\* str::starts_with
StartsWith(str, prefix) ==
    Len(str) >= Len(prefix) /\ SubSeq(str, 1, Len(prefix)) = prefix

UpperToLower ==
    [A |-> "a", B |-> "b", C |-> "c", D |-> "d", E |-> "e", F |-> "f",
     G |-> "g", H |-> "h", I |-> "i", J |-> "j", K |-> "k", L |-> "l",
     M |-> "m", N |-> "n", O |-> "o", P |-> "p", Q |-> "q", R |-> "r",
     S |-> "s", T |-> "t", U |-> "u", V |-> "v", W |-> "w", X |-> "x",
     Y |-> "y", Z |-> "z"]

RECURSIVE ToLowercase(_)
\* str::to_lowercase, on ASCII
ToLowercase(str) ==
    IF Len(str) = 0 THEN ""
    ELSE LET c == SubSeq(str, 1, 1)
         IN  (IF c \in DOMAIN UpperToLower THEN UpperToLower[c] ELSE c)
             \o ToLowercase(SubSeq(str, 2, Len(str)))

\* char::is_whitespace, on the characters the model uses
IsBlank(str) == \A i \in 1..Len(str) : SubSeq(str, i, i) = " "

\* the text occurs in the string
ContainsText(str, text) ==
    \E i \in 1..(Len(str) - Len(text) + 1) :
        SubSeq(str, i, i + Len(text) - 1) = text

\* position of the last occurrence of a character, 0 if there is none
LastIndexOf(str, ch) ==
    LET hits == {i \in 1..Len(str) : SubSeq(str, i, i) = ch}
    IN  IF hits = {} THEN 0 ELSE CHOOSE i \in hits : \A j \in hits : j <= i

----------------------------------------------------------------------------
(* Command line and configuration: cli/command_line_parser.rs and          *)
(* config/config_manager.rs                                                *)

CliOptions(directory, output, config_path, exclude, format) ==
    [directory |-> directory, output |-> output, config |-> config_path,
     exclude |-> exclude, log_level |-> None, format |-> format]

QtFunctions == <<"qDebug", "qInfo", "qWarning", "qCritical", "qFatal">>

QtCategoryFunctions == <<"qCDebug", "qCInfo", "qCWarning", "qCCritical">>

\* ConfigManager::get_default_config
get_default_config ==
    [scan |-> [directories |-> <<"./">>,
               excludes |-> <<"build/", "test/">>,
               file_types |-> <<".cpp", ".cc", ".cxx", ".h", ".hpp">>],
     log_functions |->
        [qt |-> [enabled |-> TRUE,
                 functions |-> QtFunctions,
                 category_functions |-> QtCategoryFunctions],
         custom |-> [enabled |-> TRUE,
                     functions |-> [debug |-> <<"fmDebug">>,
                                    info |-> <<"fmInfo">>,
                                    warning |-> <<"fmWarning">>,
                                    critical |-> <<"fmCritical">>]]],
     analysis |-> [function_coverage |-> TRUE, branch_coverage |-> TRUE,
                   exception_coverage |-> TRUE, key_path_coverage |-> TRUE],
     report |-> [format |-> "text", timestamp_format |-> "YYYYMMDD_HHMMSS"]]

\* serde_json::from_str::<Config>: the fields of the structs are kept, any
\* other key of the document is ignored
ConfigFromJson(doc) ==
    [scan |-> [directories |-> doc.scan.directories,
               excludes |-> doc.scan.excludes,
               file_types |-> doc.scan.file_types],
     log_functions |->
        [qt |-> [enabled |-> doc.log_functions.qt.enabled,
                 functions |-> doc.log_functions.qt.functions,
                 category_functions |-> doc.log_functions.qt.category_functions],
         custom |-> [enabled |-> doc.log_functions.custom.enabled,
                     functions |-> doc.log_functions.custom.functions]],
     analysis |-> [function_coverage |-> doc.analysis.function_coverage,
                   branch_coverage |-> doc.analysis.branch_coverage,
                   exception_coverage |-> doc.analysis.exception_coverage,
                   key_path_coverage |-> doc.analysis.key_path_coverage],
     report |-> [format |-> doc.report.format,
                 timestamp_format |-> doc.report.timestamp_format]]

\* ConfigManager::load_config: Err when the file cannot be read or parsed
load_config(doc) ==
    IF doc = NoConfig THEN [ok |-> FALSE]
    ELSE [ok |-> TRUE, config |-> ConfigFromJson(doc)]

\* ConfigManager::merge_cli_options
merge_cli_options(cfg, cli) ==
    LET c1 == IF cli.directory # None
              THEN [cfg EXCEPT !.scan.directories = <<cli.directory>>]
              ELSE cfg
        c2 == IF cli.exclude # <<>>
              THEN [c1 EXCEPT !.scan.excludes = cli.exclude]
              ELSE c1
    IN  IF cli.format # None
        THEN [c2 EXCEPT !.report.format = cli.format]
        ELSE c2

AllowedFormats == {"text", "html", "json"}

\* ConfigManager::validate_config: TRUE when no error is found
validate_config(cfg) ==
    /\ cfg.scan.directories # <<>>
    /\ \A i \in 1..Len(cfg.scan.directories) :
          ~IsBlank(cfg.scan.directories[i])
    /\ cfg.scan.file_types # <<>>
    /\ \A i \in 1..Len(cfg.scan.file_types) :
          /\ StartsWith(cfg.scan.file_types[i], ".")
          /\ Len(cfg.scan.file_types[i]) >= 2
    /\ cfg.log_functions.qt.enabled =>
          ~(cfg.log_functions.qt.functions = <<>>
            /\ cfg.log_functions.qt.category_functions = <<>>)
    /\ cfg.log_functions.custom.enabled =>
          /\ DOMAIN cfg.log_functions.custom.functions # {}
          /\ \A l \in DOMAIN cfg.log_functions.custom.functions :
                cfg.log_functions.custom.functions[l] # <<>>
    /\ ToLowercase(cfg.report.format) \in AllowedFormats
    /\ ~IsBlank(cfg.report.timestamp_format)

\* ConfigManager::new, called by main: the configuration is loaded from the
\* path of the command line or from ./dlogcover.json (then falling back to
\* the built-in defaults), the command line is merged in and the result is
\* validated; on Err main logs the error and ends
LoadConfig ==
    /\ pc = "start"
    /\ LET loaded == IF cli_options.config # None
                     THEN load_config(config_json)
                     ELSE IF load_config(config_json).ok
                          THEN load_config(config_json)
                          ELSE [ok |-> TRUE, config |-> get_default_config]
       IN  IF ~loaded.ok
           THEN /\ pc' = "config_error"
                /\ UNCHANGED config
           ELSE IF validate_config(merge_cli_options(loaded.config,
                                                     cli_options))
           THEN /\ config' = merge_cli_options(loaded.config, cli_options)
                /\ pc' = "source_manager"
           ELSE /\ pc' = "config_error"
                /\ UNCHANGED config
    /\ UNCHANGED <<file_idx, ident_pending, ast_results, log_sites_map,
                   rangeVars, calcVars, envVars, held, mainVars, visitVars>>

----------------------------------------------------------------------------
(* Source manager: source_manager/source_manager.rs *)

\* the working directory of the run
Cwd == "/p"

\* file_utils::to_absolute_path on the paths the model uses: a relative path
\* is joined to the working directory, "." components and a trailing
\* separator are dropped
to_absolute_path(path) ==
    LET q == IF Len(path) > 1 /\ SubSeq(path, Len(path), Len(path)) = "/"
             THEN SubSeq(path, 1, Len(path) - 1) ELSE path
    IN  IF StartsWith(q, "/") THEN q
        ELSE IF q = "." THEN Cwd
        ELSE IF StartsWith(q, "./") THEN Cwd \o "/" \o SubSeq(q, 3, Len(q))
        ELSE Cwd \o "/" \o q

\* Regex::new: the patterns of the model are literal texts, and texts with
\* an unclosed group, which do not compile
RegexCompiles(pattern) ==
    Cardinality({i \in 1..Len(pattern) : SubSeq(pattern, i, i) = "("})
        = Cardinality({i \in 1..Len(pattern) : SubSeq(pattern, i, i) = ")"})

\* Regex::is_match of a literal pattern: the text occurs somewhere
RegexIsMatch(pattern, text) == ContainsText(text, pattern)

\* Path::extension: what follows the last dot of the file name, None when
\* the name has no dot or only a leading one
Extension(path) ==
    LET name == SubSeq(path, LastIndexOf(path, "/") + 1, Len(path))
        dot == LastIndexOf(name, ".")
    IN  IF dot <= 1 THEN None ELSE SubSeq(name, dot + 1, Len(name))

\* SourceManager::new, called by main: the exclude patterns are compiled; on
\* Err main logs the error and ends
SourceManagerNew ==
    /\ pc = "source_manager"
    /\ IF \A i \in 1..Len(config.scan.excludes) :
             RegexCompiles(config.scan.excludes[i])
       THEN /\ exclude_patterns' = config.scan.excludes
            /\ pc' = "collect"
       ELSE /\ pc' = "source_manager_error"
            /\ UNCHANGED exclude_patterns
    /\ source_files' = <<>>
    /\ UNCHANGED <<config, file_idx, ident_pending, ast_results,
                   log_sites_map, report, rangeVars, calcVars, envVars, held,
                   visitVars>>

\* the entries WalkDir yields for a root: the root and all that lies below
WalkDir(root) ==
    {e \in fs : e.path = root \/ StartsWith(e.path, root \o "/")}

\* mutant: the exclude patterns are not consulted
IsCollected_NoExclude(cfg, patterns, e) ==
    /\ e.kind = "file"
    /\ LET ext == Extension(e.path)
       IN  IF ext # None
           THEN \E i \in 1..Len(cfg.scan.file_types) :
                   ToLowercase(cfg.scan.file_types[i]) = ToLowercase("." \o ext)
           ELSE cfg.scan.file_types = <<>>

\* the body of the loop over the entries: TRUE when the entry is pushed
IsCollected(cfg, patterns, e) ==
    /\ e.kind = "file"
    /\ LET ext == Extension(e.path)
       IN  IF ext # None
           THEN \E i \in 1..Len(cfg.scan.file_types) :
                   ToLowercase(cfg.scan.file_types[i]) = ToLowercase("." \o ext)
           ELSE cfg.scan.file_types = <<>>
    /\ ~\E i \in 1..Len(patterns) : RegexIsMatch(patterns[i], e.path)

\* the orders a directory walk may yield a set of entries in
WalkOrders(entries) ==
    {o \in [1..Cardinality(entries) -> entries] :
        \A i, j \in 1..Cardinality(entries) : o[i] = o[j] => i = j}

RECURSIVE CollectFrom(_, _, _)
\* the loop over config.scan.directories from the i-th on: the possible
\* contents of source_files
CollectFrom(cfg, patterns, i) ==
    IF i > Len(cfg.scan.directories) THEN {<<>>}
    ELSE LET root == to_absolute_path(cfg.scan.directories[i])
             is_dir == \E e \in fs : e.path = root /\ e.kind = "dir"
             kept == {e \in WalkDir(root) : IsCollected(cfg, patterns, e)}
             here == IF is_dir
                     THEN {[k \in 1..Cardinality(kept) |-> o[k].path] :
                              o \in WalkOrders(kept)}
                     ELSE {<<>>}
         IN  {h \o r : h \in here, r \in CollectFrom(cfg, patterns, i + 1)}

\* SourceManager::collect_source_files, called by main; with no file
\* collected main has nothing to analyze and ends
CollectSourceFiles ==
    /\ pc = "collect"
    /\ source_files' \in CollectFrom(config, exclude_patterns, 1)
    /\ pc' = IF source_files' = <<>> THEN "finished" ELSE "analyze"
    /\ file_idx' = 1
    /\ UNCHANGED <<config, ident_pending, ast_results, log_sites_map,
                   exclude_patterns, report, rangeVars, calcVars, envVars, held,
                   visitVars>>

----------------------------------------------------------------------------
(* The parsing front end: syntax trees and cursor positions *)

\* A tree is the sequence of its cursors in pre-order, each with its depth.
Cursor(depth, v) ==
    [depth |-> depth, kind |-> v.kind, main |-> v.main, is_def |-> v.is_def,
     name |-> v.name, usr |-> v.usr, callee |-> v.callee]

CursorShape(kind, main, is_def, name, usr, callee) ==
    [kind |-> kind, main |-> main, is_def |-> is_def, name |-> name,
     usr |-> usr, callee |-> callee]

RECURSIVE TreesOfLen(_, _)
TreesOfLen(shapes, n) ==
    IF n = 0 THEN {<<>>}
    ELSE UNION {
           {Append(t, Cursor(d, v)) :
                v \in shapes,
                d \in 1..(IF t = <<>> THEN 1 ELSE t[Len(t)].depth + 1)} :
           t \in TreesOfLen(shapes, n - 1)}

TreesUpTo(shapes, n) == UNION {TreesOfLen(shapes, k) : k \in 0..n}

\* index of the last cursor of the subtree rooted at cursor i
RECURSIVE LastDesc(_, _, _)
LastDesc(t, i, j) ==
    IF j < Len(t) /\ t[j + 1].depth > t[i].depth
    THEN LastDesc(t, i, j + 1) ELSE j

\* Source positions count the cursor starts and ends passed so far, laid out
\* MaxCol to a line, so that the extent of a cursor encloses the extents of
\* the cursors below it.
EnterTick(t, i) == 2 * i - t[i].depth

LeaveTick(t, i) == 2 * LastDesc(t, i, i) - t[i].depth + 1

TickLoc(path, tick) ==
    SourceLocation(path, ((tick - 1) \div MaxCol) + 1, ((tick - 1) % MaxCol) + 1)

HeaderPath == "hdr.h"

CursorFile(path, t, i) == IF t[i].main THEN path ELSE HeaderPath

\* clang_getCursorLocation
CursorLocation(path, t, i) == TickLoc(CursorFile(path, t, i), EnterTick(t, i))

\* clang_getRangeStart(clang_getCursorExtent(cursor))
ExtentStart(path, t, i) == TickLoc(CursorFile(path, t, i), EnterTick(t, i))

\* clang_getRangeEnd(clang_getCursorExtent(cursor))
ExtentEnd(path, t, i) == TickLoc(CursorFile(path, t, i), LeaveTick(t, i))

\* clang_Location_isFromMainFile
IsFromMainFile(t, i) == t[i].main

----------------------------------------------------------------------------
(* Structural extractor: visit_cursor_recursive *)

BranchKinds ==
    [IfStmt |-> "if", SwitchStmt |-> "switch", CaseStmt |-> "case",
     DefaultStmt |-> "default", ForStmt |-> "for", WhileStmt |-> "while",
     DoStmt |-> "do_while"]

ExceptionKinds == [CXXTryStmt |-> "try", CXXCatchStmt |-> "catch"]

\* let qualified_name = if usr.is_empty() { name.clone() } else { usr };
QualifiedName(node) == IF node.usr = "" THEN node.name ELSE node.usr

\* mutant: a branch is recorded whether or not a function context is active
ExtractorMatch_AnyContext(d, node, start_loc, end_loc) ==
    IF node.kind \in {"ClassDecl", "StructDecl"}
    THEN [d EXCEPT !.current_class_name = node.name]
    ELSE IF node.kind \in {"FunctionDecl", "CXXMethod"}
    THEN IF node.is_def
         THEN [d EXCEPT
                 !.ast_info.functions =
                     Append(@, FunctionInfo(
                                 node.name, QualifiedName(node), start_loc,
                                 end_loc, node.kind = "CXXMethod",
                                 IF node.kind = "CXXMethod"
                                 THEN d.current_class_name ELSE None,
                                 TRUE)),
                 !.current_function_qname = QualifiedName(node)]
         ELSE d
    ELSE IF node.kind \in DOMAIN BranchKinds
    THEN [d EXCEPT !.ast_info.branches =
             Append(@, BranchInfo(d.current_function_qname,
                                  BranchKinds[node.kind],
                                  start_loc, end_loc))]
    ELSE IF node.kind \in DOMAIN ExceptionKinds
    THEN IF d.current_function_qname # None
         THEN [d EXCEPT !.ast_info.exceptions =
                 Append(@, ExceptionInfo(d.current_function_qname,
                                         ExceptionKinds[node.kind],
                                         start_loc, end_loc))]
         ELSE d
    ELSE d

\* mutant: a declaration without a body is recorded too, with has_body false
ExtractorMatch_Declarations(d, node, start_loc, end_loc) ==
    IF node.kind \in {"ClassDecl", "StructDecl"}
    THEN [d EXCEPT !.current_class_name = node.name]
    ELSE IF node.kind \in {"FunctionDecl", "CXXMethod"}
    THEN [d EXCEPT
            !.ast_info.functions =
                Append(@, FunctionInfo(
                            node.name, QualifiedName(node), start_loc,
                            end_loc, node.kind = "CXXMethod",
                            IF node.kind = "CXXMethod"
                            THEN d.current_class_name ELSE None,
                            node.is_def)),
            !.current_function_qname =
                IF node.is_def THEN QualifiedName(node) ELSE @]
    ELSE IF node.kind \in DOMAIN BranchKinds
    THEN IF d.current_function_qname # None
         THEN [d EXCEPT !.ast_info.branches =
                 Append(@, BranchInfo(d.current_function_qname,
                                      BranchKinds[node.kind],
                                      start_loc, end_loc))]
         ELSE d
    ELSE IF node.kind \in DOMAIN ExceptionKinds
    THEN IF d.current_function_qname # None
         THEN [d EXCEPT !.ast_info.exceptions =
                 Append(@, ExceptionInfo(d.current_function_qname,
                                         ExceptionKinds[node.kind],
                                         start_loc, end_loc))]
         ELSE d
    ELSE d

\* the match of visit_cursor_recursive on a cursor of the main file
ExtractorMatch(d, node, start_loc, end_loc) ==
    IF node.kind \in {"ClassDecl", "StructDecl"}
    THEN [d EXCEPT !.current_class_name = node.name]
    ELSE IF node.kind \in {"FunctionDecl", "CXXMethod"}
    THEN IF node.is_def
         THEN [d EXCEPT
                 !.ast_info.functions =
                     Append(@, FunctionInfo(
                                 node.name, QualifiedName(node), start_loc,
                                 end_loc, node.kind = "CXXMethod",
                                 IF node.kind = "CXXMethod"
                                 THEN d.current_class_name ELSE None,
                                 TRUE)),
                 !.current_function_qname = QualifiedName(node)]
         ELSE d
    ELSE IF node.kind \in DOMAIN BranchKinds
    THEN IF d.current_function_qname # None
         THEN [d EXCEPT !.ast_info.branches =
                 Append(@, BranchInfo(d.current_function_qname,
                                      BranchKinds[node.kind],
                                      start_loc, end_loc))]
         ELSE d
    ELSE IF node.kind \in DOMAIN ExceptionKinds
    THEN IF d.current_function_qname # None
         THEN [d EXCEPT !.ast_info.exceptions =
                 Append(@, ExceptionInfo(d.current_function_qname,
                                         ExceptionKinds[node.kind],
                                         start_loc, end_loc))]
         ELSE d
    ELSE d

\* the callback's frame: what it restores when its children are done
Frame(main, fq, cn) ==
    [main |-> main, original_function_qname |-> fq, original_class_name |-> cn]

AtChild == cursor <= Len(trees[cur_file])
           /\ trees[cur_file][cursor].depth = Len(stack) + 1

ChildrenDone == IF cursor > Len(trees[cur_file]) THEN TRUE
                ELSE trees[cur_file][cursor].depth <= Len(stack)

\* the translation unit is null or a diagnostic has severity Error or Fatal
ParseFails(r) ==
    \/ r.tu_null
    \/ \E i \in 1..Len(r.diagnostics) : r.diagnostics[i] \in {"Error", "Fatal"}

\* a native resource of the front end: an index, a translation unit or a
\* diagnostic, acquired by the extractor or the identifier for a file
Resource(kind, owner, path) == [kind |-> kind, owner |-> owner, path |-> path]

\* the loops over the diagnostics: each one is fetched with
\* clang_getDiagnostic and disposed before the next
DiagnosticsLoop(h, owner, path, r) ==
    LET d == Resource("diagnostic", owner, path)
    IN  IF r.diagnostics = <<>> THEN h ELSE (h \cup {d}) \ {d}

\* clang_createIndex and clang_parseTranslationUnit succeed and the
\* diagnostics are gone through: what is held during the traversal
ParseAcquire(h, owner, path, r) ==
    DiagnosticsLoop(h \cup {Resource("index", owner, path),
                            Resource("translation_unit", owner, path)},
                    owner, path, r)

\* clang_disposeTranslationUnit(tu); clang_disposeIndex(index);
ParseRelease(h, owner, path) ==
    (h \ {Resource("translation_unit", owner, path)})
        \ {Resource("index", owner, path)}

\* parse_and_visit_file returns Err: what is held afterwards
ExtractorFailure(h, path, r) ==
    LET i == Resource("index", "extractor", path)
    IN  IF r.tu_null THEN (h \cup {i}) \ {i}
        ELSE ParseRelease(ParseAcquire(h, "extractor", path, r),
                          "extractor", path)

\* mutant: the first file that fails to parse ends the loop
AnalyzeFail_Abort ==
    /\ pc = "analyze"
    /\ file_idx <= Len(source_files)
    /\ ParseFails(front_end[source_files[file_idx]])
    /\ file_idx' = Len(source_files) + 1
    /\ held' = ExtractorFailure(held, source_files[file_idx],
                                front_end[source_files[file_idx]])
    /\ UNCHANGED <<pc, config, ident_pending, ast_results, log_sites_map,
                   rangeVars, calcVars, envVars, mainVars, visitVars>>

\* analyze_files: parse_and_visit_file returns Err for the next source file;
\* the error is logged and the loop goes on
AnalyzeFail ==
    /\ pc = "analyze"
    /\ file_idx <= Len(source_files)
    /\ ParseFails(front_end[source_files[file_idx]])
    /\ file_idx' = file_idx + 1
    /\ held' = ExtractorFailure(held, source_files[file_idx],
                                front_end[source_files[file_idx]])
    /\ UNCHANGED <<pc, config, ident_pending, ast_results, log_sites_map,
                   rangeVars, calcVars, envVars, mainVars, visitVars>>

\* mutant: the items of the files parsed before are kept in the visitor data
AnalyzeBegin_SharedData ==
    /\ pc = "analyze"
    /\ file_idx <= Len(source_files)
    /\ ~ParseFails(front_end[source_files[file_idx]])
    /\ cur_file' = source_files[file_idx]
    /\ data' = IF data = NoData
               THEN [ast_info |-> FileAstInfoNew(source_files[file_idx]),
                     current_function_qname |-> None,
                     current_class_name |-> None]
               ELSE [data EXCEPT
                       !.ast_info.file_path = source_files[file_idx]]
    /\ cursor' = 1
    /\ stack' = <<>>
    /\ pc' = "extract"
    /\ held' = ParseAcquire(held, "extractor", source_files[file_idx],
                            front_end[source_files[file_idx]])
    /\ UNCHANGED <<config, file_idx, ident_pending, ast_results,
                   log_sites_map, context, rangeVars, calcVars, envVars, mainVars>>

\* analyze_files: the next source file enters parse_and_visit_file and is
\* parsed without error
AnalyzeBegin ==
    /\ pc = "analyze"
    /\ file_idx <= Len(source_files)
    /\ ~ParseFails(front_end[source_files[file_idx]])
    /\ cur_file' = source_files[file_idx]
    /\ data' = [ast_info |-> FileAstInfoNew(source_files[file_idx]),
                current_function_qname |-> None,
                current_class_name |-> None]
    /\ cursor' = 1
    /\ stack' = <<>>
    /\ pc' = "extract"
    /\ held' = ParseAcquire(held, "extractor", source_files[file_idx],
                            front_end[source_files[file_idx]])
    /\ UNCHANGED <<config, file_idx, ident_pending, ast_results,
                   log_sites_map, context, rangeVars, calcVars, envVars, mainVars>>

\* mutant: a cursor of another file is matched like one of the main file
ExtractVisit_HeaderNodes ==
    /\ pc = "extract"
    /\ AtChild
    /\ LET t == trees[cur_file]
           node == t[cursor]
       IN  /\ stack' = Append(stack, Frame(TRUE,
                                           data.current_function_qname,
                                           data.current_class_name))
           /\ data' = ExtractorMatch(data, node,
                                     ExtentStart(cur_file, t, cursor),
                                     ExtentEnd(cur_file, t, cursor))
    /\ cursor' = cursor + 1
    /\ UNCHANGED <<pc, config, file_idx, ident_pending, ast_results,
                   log_sites_map, cur_file, context, rangeVars, calcVars,
                   envVars, held, mainVars>>

\* visit_cursor_recursive is called on the next cursor and works up to its
\* clang_visitChildren call (a cursor of another file: up to its return of
\* CXChildVisit_Recurse, after which the front end visits its children)
ExtractVisit ==
    /\ pc = "extract"
    /\ AtChild
    /\ LET t == trees[cur_file]
           node == t[cursor]
       IN  /\ stack' = Append(stack, Frame(IsFromMainFile(t, cursor),
                                           data.current_function_qname,
                                           data.current_class_name))
           /\ data' = IF IsFromMainFile(t, cursor)
                      THEN ExtractorMatch(data, node,
                                          ExtentStart(cur_file, t, cursor),
                                          ExtentEnd(cur_file, t, cursor))
                      ELSE data
    /\ cursor' = cursor + 1
    /\ UNCHANGED <<pc, config, file_idx, ident_pending, ast_results,
                   log_sites_map, cur_file, context, rangeVars, calcVars,
                   envVars, held, mainVars>>

\* mutant: the callback returns without restoring the context
ExtractReturn_NoRestore ==
    /\ pc = "extract"
    /\ stack # <<>>
    /\ ChildrenDone
    /\ stack' = SubSeq(stack, 1, Len(stack) - 1)
    /\ UNCHANGED <<pc, config, file_idx, ident_pending, ast_results,
                   log_sites_map, cur_file, cursor, data, context, rangeVars,
                   calcVars, envVars, held, mainVars>>

\* the children of the innermost cursor are done: the context is restored
\* and the callback returns CXChildVisit_Continue
ExtractReturn ==
    /\ pc = "extract"
    /\ stack # <<>>
    /\ ChildrenDone
    /\ LET fr == stack[Len(stack)]
       IN  data' = IF fr.main
                   THEN [data EXCEPT
                           !.current_function_qname = fr.original_function_qname,
                           !.current_class_name = fr.original_class_name]
                   ELSE data
    /\ stack' = SubSeq(stack, 1, Len(stack) - 1)
    /\ UNCHANGED <<pc, config, file_idx, ident_pending, ast_results,
                   log_sites_map, cur_file, cursor, context, rangeVars,
                   calcVars, envVars, held, mainVars>>

\* parse_and_visit_file returns Ok(ast_info); analyze_files stores it
AnalyzeEnd ==
    /\ pc = "extract"
    /\ stack = <<>>
    /\ cursor > Len(trees[cur_file])
    /\ ast_results' = MapPut(ast_results, cur_file, data.ast_info)
    /\ file_idx' = file_idx + 1
    /\ pc' = "analyze"
    /\ held' = ParseRelease(held, "extractor", cur_file)
    /\ UNCHANGED <<config, ident_pending, log_sites_map, rangeVars, calcVars,
                   envVars, mainVars, visitVars>>

\* analyze_files returns Ok(()); main goes on to the identification loop
AnalyzeDone ==
    /\ pc = "analyze"
    /\ file_idx > Len(source_files)
    /\ ident_pending' = DOMAIN ast_results
    /\ pc' = "identify"
    /\ UNCHANGED <<config, file_idx, ast_results, log_sites_map, rangeVars,
                   calcVars, envVars, held, mainVars, visitVars>>

----------------------------------------------------------------------------
(* Call-site identifier: visit_log_identifier_cursor *)

\* mutant: a call starts out as matched, with the type Unknown
NotMatched_Recorded ==
    [matched |-> TRUE, log_type |-> "Unknown", log_level |-> "Unknown"]

NotMatched == [matched |-> FALSE, log_type |-> "Unknown", log_level |-> "Unknown"]

\* the level of a built-in global function, by prefix
QtLevel(callee_name) ==
    IF StartsWith(callee_name, "qDebug") THEN "Debug"
    ELSE IF StartsWith(callee_name, "qInfo") THEN "Info"
    ELSE IF StartsWith(callee_name, "qWarning") THEN "Warning"
    ELSE IF StartsWith(callee_name, "qCritical") THEN "Critical"
    ELSE IF StartsWith(callee_name, "qFatal") THEN "Fatal"
    ELSE "Unknown"

\* the level of a built-in category function, by prefix
QtCategoryLevel(callee_name) ==
    IF StartsWith(callee_name, "qCDebug") THEN "Debug"
    ELSE IF StartsWith(callee_name, "qCInfo") THEN "Info"
    ELSE IF StartsWith(callee_name, "qCWarning") THEN "Warning"
    ELSE IF StartsWith(callee_name, "qCCritical") THEN "Critical"
    ELSE "Unknown"

\* mutant: the synonyms warn and error are not accepted
CustomLevel_NoSynonyms(level_str) ==
    LET l == ToLowercase(level_str)
    IN  IF l = "debug" THEN "Debug"
        ELSE IF l = "info" THEN "Info"
        ELSE IF l = "warning" THEN "Warning"
        ELSE IF l = "critical" THEN "Critical"
        ELSE IF l = "fatal" THEN "Fatal"
        ELSE "Unknown"

\* match level_str.to_lowercase().as_str() { ... }
CustomLevel(level_str) ==
    LET l == ToLowercase(level_str)
    IN  IF l = "debug" THEN "Debug"
        ELSE IF l = "info" THEN "Info"
        ELSE IF l \in {"warning", "warn"} THEN "Warning"
        ELSE IF l \in {"error", "critical"} THEN "Critical"
        ELSE IF l = "fatal" THEN "Fatal"
        ELSE "Unknown"

\* if !matched && qt.enabled { if qt.functions.contains(&callee_name) ... }
MatchQt(cfg, callee_name, m) ==
    IF ~m.matched /\ cfg.log_functions.qt.enabled
       /\ Contains(cfg.log_functions.qt.functions, callee_name)
    THEN [matched |-> TRUE, log_type |-> "Qt",
          log_level |-> QtLevel(callee_name)]
    ELSE m

\* mutant: the category list is consulted whatever qt.enabled says
MatchQtCategory_Unconditional(cfg, callee_name, m) ==
    IF ~m.matched
       /\ Contains(cfg.log_functions.qt.category_functions, callee_name)
    THEN [matched |-> TRUE, log_type |-> "QtCategory",
          log_level |-> QtCategoryLevel(callee_name)]
    ELSE m

\* if !matched && qt.enabled { if qt.category_functions.contains(...) ... }
MatchQtCategory(cfg, callee_name, m) ==
    IF ~m.matched /\ cfg.log_functions.qt.enabled
       /\ Contains(cfg.log_functions.qt.category_functions, callee_name)
    THEN [matched |-> TRUE, log_type |-> "QtCategory",
          log_level |-> QtCategoryLevel(callee_name)]
    ELSE m

\* if !matched && custom.enabled { for (level_str, func_names) in ... }
\* The HashMap is iterated in an unspecified order and the loop breaks at the
\* first level whose list contains the callee: every such level is a possible
\* outcome.
MatchCustom(cfg, callee_name, m) ==
    LET levels == {l \in DOMAIN cfg.log_functions.custom.functions :
                      Contains(cfg.log_functions.custom.functions[l],
                               callee_name)}
    IN  IF ~m.matched /\ cfg.log_functions.custom.enabled /\ levels # {}
        THEN {[matched |-> TRUE, log_type |-> "Custom",
               log_level |-> CustomLevel(l)] : l \in levels}
        ELSE {m}

\* mutant: the custom rule is tried first
Classify_CustomFirst(cfg, callee_name) ==
    UNION {{MatchQtCategory(cfg, callee_name, MatchQt(cfg, callee_name, m))} :
              m \in MatchCustom(cfg, callee_name, NotMatched)}

\* the three rules in the order of the code: the possible outcomes
Classify(cfg, callee_name) ==
    MatchCustom(cfg, callee_name,
                MatchQtCategory(cfg, callee_name,
                                MatchQt(cfg, callee_name, NotMatched)))

\* mutant: a call is classified whether or not a function context is active
IdentifierMatch_AnyContext(ctx, cfg, node, call_loc) ==
    IF node.kind \in {"ClassDecl", "StructDecl"}
    THEN {[ctx EXCEPT !.current_parent_class_name = node.name]}
    ELSE IF node.kind \in {"FunctionDecl", "CXXMethod"}
    THEN IF node.is_def
         THEN {[ctx EXCEPT !.current_parent_function_qname = QualifiedName(node)]}
         ELSE {ctx}
    ELSE IF node.kind = "CallExpr"
    THEN {IF m.matched
          THEN [ctx EXCEPT !.log_call_sites =
                  Append(@, LogCallSite(node.callee, call_loc,
                                        m.log_level, m.log_type,
                                        ctx.current_parent_function_qname,
                                        ctx.current_parent_class_name))]
          ELSE ctx : m \in Classify(cfg, node.callee)}
    ELSE {ctx}

\* mutant: only a method definition sets the function context
IdentifierMatch_MethodsOnly(ctx, cfg, node, call_loc) ==
    IF node.kind \in {"ClassDecl", "StructDecl"}
    THEN {[ctx EXCEPT !.current_parent_class_name = node.name]}
    ELSE IF node.kind = "CXXMethod"
    THEN IF node.is_def
         THEN {[ctx EXCEPT !.current_parent_function_qname = QualifiedName(node)]}
         ELSE {ctx}
    ELSE IF node.kind = "CallExpr"
    THEN IF ctx.current_parent_function_qname # None
         THEN {IF m.matched
               THEN [ctx EXCEPT !.log_call_sites =
                       Append(@, LogCallSite(node.callee, call_loc,
                                             m.log_level, m.log_type,
                                             ctx.current_parent_function_qname,
                                             ctx.current_parent_class_name))]
               ELSE ctx : m \in Classify(cfg, node.callee)}
         ELSE {ctx}
    ELSE {ctx}

\* mutant: the function context is the simple name of the definition
IdentifierMatch_SimpleName(ctx, cfg, node, call_loc) ==
    IF node.kind \in {"ClassDecl", "StructDecl"}
    THEN {[ctx EXCEPT !.current_parent_class_name = node.name]}
    ELSE IF node.kind \in {"FunctionDecl", "CXXMethod"}
    THEN IF node.is_def
         THEN {[ctx EXCEPT !.current_parent_function_qname = node.name]}
         ELSE {ctx}
    ELSE IF node.kind = "CallExpr"
    THEN IF ctx.current_parent_function_qname # None
         THEN {IF m.matched
               THEN [ctx EXCEPT !.log_call_sites =
                       Append(@, LogCallSite(node.callee, call_loc,
                                             m.log_level, m.log_type,
                                             ctx.current_parent_function_qname,
                                             ctx.current_parent_class_name))]
               ELSE ctx : m \in Classify(cfg, node.callee)}
         ELSE {ctx}
    ELSE {ctx}

\* the match of visit_log_identifier_cursor on a cursor of the main file:
\* the possible contexts after it
IdentifierMatch(ctx, cfg, node, call_loc) ==
    IF node.kind \in {"ClassDecl", "StructDecl"}
    THEN {[ctx EXCEPT !.current_parent_class_name = node.name]}
    ELSE IF node.kind \in {"FunctionDecl", "CXXMethod"}
    THEN IF node.is_def
         THEN {[ctx EXCEPT !.current_parent_function_qname = QualifiedName(node)]}
         ELSE {ctx}
    ELSE IF node.kind = "CallExpr"
    THEN IF ctx.current_parent_function_qname # None
         THEN {IF m.matched
               THEN [ctx EXCEPT !.log_call_sites =
                       Append(@, LogCallSite(node.callee, call_loc,
                                             m.log_level, m.log_type,
                                             ctx.current_parent_function_qname,
                                             ctx.current_parent_class_name))]
               ELSE ctx : m \in Classify(cfg, node.callee)}
         ELSE {ctx}
    ELSE {ctx}

\* main: the next entry of ast_results is read and enters
\* identify_log_calls_in_file
IdentifyBegin(file_path) ==
    /\ pc = "identify"
    /\ file_path \in ident_pending
    /\ ident_env[file_path].readable
    /\ ~ident_env[file_path].has_nul
    /\ ~ParseFails(ident_env[file_path])
    /\ cur_file' = file_path
    /\ context' = [log_call_sites |-> <<>>,
                   current_parent_function_qname |-> None,
                   current_parent_class_name |-> None]
    /\ cursor' = 1
    /\ stack' = <<>>
    /\ pc' = "ident_visit"
    /\ held' = ParseAcquire(held, "identifier", file_path,
                            ident_env[file_path])
    /\ UNCHANGED <<config, file_idx, ident_pending, ast_results,
                   log_sites_map, data, rangeVars, calcVars, envVars, mainVars>>

\* visit_log_identifier_cursor is called on the next cursor and works up to
\* its clang_visitChildren call (a cursor of another file: up to its return
\* of CXChildVisit_Recurse)
IdentVisit ==
    /\ pc = "ident_visit"
    /\ AtChild
    /\ LET t == trees[cur_file]
           node == t[cursor]
       IN  /\ stack' = Append(stack,
                              Frame(IsFromMainFile(t, cursor),
                                    context.current_parent_function_qname,
                                    context.current_parent_class_name))
           /\ IF IsFromMainFile(t, cursor)
              THEN context' \in IdentifierMatch(
                                    context, config, node,
                                    CursorLocation(cur_file, t, cursor))
              ELSE context' = context
    /\ cursor' = cursor + 1
    /\ UNCHANGED <<pc, config, file_idx, ident_pending, ast_results,
                   log_sites_map, cur_file, data, rangeVars, calcVars,
                   envVars, held, mainVars>>

\* the children of the innermost cursor are done: the context is restored
\* and the callback returns CXChildVisit_Continue
IdentReturn ==
    /\ pc = "ident_visit"
    /\ stack # <<>>
    /\ ChildrenDone
    /\ LET fr == stack[Len(stack)]
       IN  context' =
             IF fr.main
             THEN [context EXCEPT
                     !.current_parent_function_qname = fr.original_function_qname,
                     !.current_parent_class_name = fr.original_class_name]
             ELSE context
    /\ stack' = SubSeq(stack, 1, Len(stack) - 1)
    /\ UNCHANGED <<pc, config, file_idx, ident_pending, ast_results,
                   log_sites_map, cur_file, cursor, data, rangeVars,
                   calcVars, envVars, held, mainVars>>

\* identify_log_calls_in_file returns Ok(log_call_sites); main stores them
IdentifyEnd ==
    /\ pc = "ident_visit"
    /\ stack = <<>>
    /\ cursor > Len(trees[cur_file])
    /\ log_sites_map' = MapPut(log_sites_map, cur_file, context.log_call_sites)
    /\ ident_pending' = ident_pending \ {cur_file}
    /\ pc' = "identify"
    /\ held' = ParseRelease(held, "identifier", cur_file)
    /\ UNCHANGED <<config, file_idx, ast_results, rangeVars, calcVars,
                   envVars, mainVars, visitVars>>

\* identify_log_calls_in_file does not get to its traversal, or main does
\* not call it: what is held afterwards. read_file fails before anything is
\* acquired; a content that is no C string makes the function return through
\* the ? operator with the index created and not disposed; the two parse
\* failures dispose what they acquired.
IdentifierFailure(h, path, r) ==
    LET i == Resource("index", "identifier", path)
        t == Resource("translation_unit", "identifier", path)
    IN  IF ~r.readable THEN h
        ELSE IF r.has_nul THEN h \cup {i}
        ELSE IF r.tu_null THEN (h \cup {i}) \ {i}
        ELSE (DiagnosticsLoop(h \cup {i, t}, "identifier", path, r) \ {t}) \ {i}

\* main: read_file or identify_log_calls_in_file returns Err for the next
\* entry of ast_results; the error is logged, nothing is inserted into
\* log_sites_map and the loop goes on
IdentifySkip(file_path) ==
    /\ pc = "identify"
    /\ file_path \in ident_pending
    /\ \/ ~ident_env[file_path].readable
       \/ ident_env[file_path].has_nul
       \/ ParseFails(ident_env[file_path])
    /\ ident_pending' = ident_pending \ {file_path}
    /\ held' = IdentifierFailure(held, file_path, ident_env[file_path])
    /\ UNCHANGED <<pc, config, file_idx, ast_results, log_sites_map,
                   rangeVars, calcVars, envVars, mainVars, visitVars>>

\* mutant: nothing is calculated unless every collected file was extracted
IdentifyDone_AllOrNothing ==
    /\ pc = "identify"
    /\ ident_pending = {}
    /\ pc' = IF /\ ast_results # EmptyMap
                /\ Cardinality(DOMAIN ast_results) = Len(source_files)
             THEN "ready" ELSE "finished"
    /\ UNCHANGED <<config, file_idx, ident_pending, ast_results,
                   log_sites_map, rangeVars, calcVars, envVars, held, mainVars, visitVars>>

\* main: the identification loop is over; if !ast_results.is_empty() the
\* coverage is calculated, else calculation and report are skipped
IdentifyDone ==
    /\ pc = "identify"
    /\ ident_pending = {}
    /\ pc' = IF ast_results # EmptyMap THEN "ready" ELSE "finished"
    /\ UNCHANGED <<config, file_idx, ident_pending, ast_results,
                   log_sites_map, rangeVars, calcVars, envVars, held, mainVars, visitVars>>

----------------------------------------------------------------------------
(* The run of main *)

\* reporter::get_reporter
get_reporter(format) ==
    LET f == ToLowercase(format)
    IN  IF f = "text" THEN "TextReporter"
        ELSE IF f = "json" THEN "JsonReporter"
        ELSE None

\* main: what the report is written to; creating the output file or its
\* directory may fail, and main then falls back to stdout or to a sink
Writers(cli) ==
    IF cli.output = None THEN {"stdout"} ELSE {"file", "stdout", "sink"}

\* main, after calculate_project_coverage returned Ok: the report is
\* generated by the reporter of the configured format, if there is one
GenerateReport ==
    /\ pc = "done"
    /\ config # NoConfig
    /\ IF get_reporter(config.report.format) # None
       THEN \E w \in Writers(cli_options) :
               report' = [reporter |-> get_reporter(config.report.format),
                          writer |-> w,
                          project_coverage |-> project_coverage]
       ELSE UNCHANGED report
    /\ pc' = "finished"
    /\ UNCHANGED <<config, file_idx, ident_pending, ast_results,
                   log_sites_map, exclude_patterns, source_files, rangeVars,
                   calcVars, envVars, held, visitVars>>

\* custom level lists that share names with the built-in lists and with each
\* other
CustomFunctions ==
    [Warn |-> <<"fmLog">>, fatal |-> <<"qDebug", "qCInfo", "fmLog">>]

Root == "/p"

ConfigDoc(qt_enabled, category_enabled, custom_enabled) ==
    [scan |-> [directories |-> <<Root>>,
               excludes |-> <<>>,
               file_types |-> <<".cpp">>],
     log_functions |->
        [qt |-> [enabled |-> qt_enabled,
                 category_enabled |-> category_enabled,
                 functions |-> QtFunctions,
                 category_functions |-> QtCategoryFunctions],
         custom |-> [enabled |-> custom_enabled,
                     functions |-> CustomFunctions]],
     analysis |-> [function_coverage |-> TRUE, branch_coverage |-> TRUE,
                   exception_coverage |-> TRUE, key_path_coverage |-> TRUE],
     report |-> [format |-> "text", timestamp_format |-> "YYYYMMDD_HHMMSS"]]

ConfigDocs ==
    {ConfigDoc(q, c, u) : q \in BOOLEAN, c \in BOOLEAN, u \in BOOLEAN}

MainFile == "/p/a.cpp"

FunctionF == CursorShape("FunctionDecl", TRUE, TRUE, "f", "c:@F@f#", "")

CallTo(callee) == CursorShape("CallExpr", TRUE, FALSE, "", "", callee)

FunctionG == CursorShape("FunctionDecl", TRUE, TRUE, "g", "", "")

IfStmt == CursorShape("IfStmt", TRUE, FALSE, "", "", "")

TryStmt == CursorShape("CXXTryStmt", TRUE, FALSE, "", "", "")

\* the cursors of the trees that vary in structure: a function definition of
\* an included header, two of the main file (one without a unique symbol
\* identifier), an if, a try and a logging call
StructShapes ==
    {CursorShape("FunctionDecl", FALSE, TRUE, "h", "c:@F@h#", ""),
     FunctionF, FunctionG, IfStmt, TryStmt, CallTo("qDebug")}

\* trees of the other cursor kinds: a method of a class, a declaration
\* without a body, a loop, a switch, a catch block, and cursors of the main
\* file below an if and a class of an included header
ScenarioTrees ==
    {<<Cursor(1, CursorShape("ClassDecl", TRUE, TRUE, "K", "c:@S@K", "")),
       Cursor(2, CursorShape("CXXMethod", TRUE, TRUE, "m", "c:@S@K@F@m#", "")),
       Cursor(3, CursorShape("WhileStmt", TRUE, FALSE, "", "", "")),
       Cursor(4, CallTo("qCInfo")),
       Cursor(1, CallTo("qDebug"))>>,
     <<Cursor(1, CursorShape("FunctionDecl", TRUE, FALSE, "d", "c:@F@d#", "")),
       Cursor(1, FunctionF),
       Cursor(2, CursorShape("SwitchStmt", TRUE, FALSE, "", "", "")),
       Cursor(3, CursorShape("CaseStmt", TRUE, FALSE, "", "", "")),
       Cursor(4, CallTo("fmLog")),
       Cursor(3, CursorShape("DefaultStmt", TRUE, FALSE, "", "", ""))>>,
     <<Cursor(1, FunctionG),
       Cursor(2, TryStmt),
       Cursor(3, CallTo("foo")),
       Cursor(3, CursorShape("CXXCatchStmt", TRUE, FALSE, "", "", "")),
       Cursor(4, CallTo("qFatal")),
       Cursor(2, CursorShape("ForStmt", TRUE, FALSE, "", "", "")),
       Cursor(2, CursorShape("DoStmt", TRUE, FALSE, "", "", "")),
       Cursor(2, CursorShape("Namespace", TRUE, FALSE, "n", "", ""))>>,
     <<Cursor(1, FunctionF),
       Cursor(2, CursorShape("IfStmt", FALSE, FALSE, "", "", "")),
       Cursor(3, CallTo("qDebug")),
       Cursor(3, CursorShape("CallExpr", FALSE, FALSE, "", "", "qInfo")),
       Cursor(1, CursorShape("ClassDecl", FALSE, TRUE, "H", "c:@S@H", "")),
       Cursor(2, CursorShape("CXXMethod", TRUE, TRUE, "m", "c:@S@H@F@m#", "")),
       Cursor(3, TryStmt)>>}

Callees == {"qDebug", "qCInfo", "fmLog", "foo"}

\* the trees that vary in the calls made: one or two calls, in f or outside
CallTrees ==
    {<<Cursor(1, CallTo(c))>> : c \in Callees}
    \cup {<<Cursor(1, FunctionF), Cursor(2, CallTo(c))>> : c \in Callees}
    \cup {<<Cursor(1, FunctionF), Cursor(2, CallTo(c1)), Cursor(d, CallTo(c2))>> :
             c1 \in Callees, c2 \in Callees, d \in 1..2}

OtherFile == "/p/b.cpp"

Dir(path) == [path |-> path, kind |-> "dir"]

File(path) == [path |-> path, kind |-> "file"]

Symlink(path) == [path |-> path, kind |-> "symlink"]

CleanParse == [tu_null |-> FALSE, diagnostics |-> <<>>]

Readable ==
    [readable |-> TRUE, has_nul |-> FALSE, tu_null |-> FALSE,
     diagnostics |-> <<>>]

NoCliOptions == CliOptions(None, None, None, <<>>, None)

\* one source file that parses and reads without error
OneFile(doc, t) ==
    /\ cli_options = NoCliOptions
    /\ config_json = doc
    /\ fs = {Dir(Root), File(MainFile)}
    /\ trees = [p \in {MainFile} |-> t]
    /\ front_end = [p \in {MainFile} |-> CleanParse]
    /\ ident_env = [p \in {MainFile} |-> Readable]

\* level tags of the custom mapping, in several spellings, and one that
\* names no level
LevelTags ==
    {"debug", "Debug", "INFO", "warning", "Warn", "ERROR", "critical",
     "Fatal", "trace"}

\* configurations whose custom mapping has the one entry tag -> fmLog
TagDocs ==
    {[ConfigDoc(TRUE, TRUE, u) EXCEPT
         !.log_functions.custom.functions = (tag :> <<"fmLog">>)] :
        tag \in LevelTags, u \in BOOLEAN}

\* what the front end may report for a file when the extractor parses it
ParseEnvs ==
    {CleanParse,
     [tu_null |-> FALSE, diagnostics |-> <<"Warning">>],
     [tu_null |-> FALSE, diagnostics |-> <<"Warning", "Error">>],
     [tu_null |-> FALSE, diagnostics |-> <<"Fatal">>],
     [tu_null |-> TRUE, diagnostics |-> <<>>]}

\* what main and the identifier may meet for a file: it cannot be read, its
\* content has a NUL character and is no C string, or it has an error
IdentEnvs ==
    {Readable,
     [readable |-> FALSE, has_nul |-> FALSE, tu_null |-> FALSE,
      diagnostics |-> <<>>],
     [readable |-> TRUE, has_nul |-> TRUE, tu_null |-> FALSE,
      diagnostics |-> <<>>],
     [readable |-> TRUE, has_nul |-> FALSE, tu_null |-> FALSE,
      diagnostics |-> <<"Error">>]}

\* two source files, each of which may fail to parse, to be read or to be
\* identified
TwoFiles ==
    /\ cli_options \in {NoCliOptions,
                        CliOptions(None, "/out/r.txt", None, <<>>, "json"),
                        CliOptions(None, None, None, <<>>, "html")}
    /\ config_json = ConfigDoc(TRUE, TRUE, TRUE)
    /\ fs = {Dir(Root), File(MainFile), File(OtherFile)}
    /\ trees = (MainFile :> <<Cursor(1, FunctionF), Cursor(2, IfStmt),
                             Cursor(3, CallTo("qDebug"))>>)
               @@ (OtherFile :> <<Cursor(1, FunctionG),
                                  Cursor(2, CallTo("qInfo"))>>)
    /\ front_end \in [{MainFile, OtherFile} -> ParseEnvs]
    /\ ident_env \in [{MainFile, OtherFile} -> IdentEnvs]

\* a directory tree with files of several extensions, a file without one, a
\* directory and a symbolic link named like source files, and a build
\* directory
ScanFs ==
    {Dir(Root), File(MainFile), File("/p/b.CPP"), File("/p/c.txt"),
     File("/p/Makefile"), Dir("/p/d.cpp"), Symlink("/p/l.cpp"),
     Dir("/p/build"), File("/p/build/g.cpp")}

ScanDoc(directories, excludes, file_types, format) ==
    [ConfigDoc(TRUE, TRUE, TRUE) EXCEPT
        !.scan = [directories |-> directories, excludes |-> excludes,
                  file_types |-> file_types],
        !.report.format = format]

ScanDirs == {<<>>, <<" ">>, <<Root>>, <<"./">>, <<"/none">>,
             <<Root, "/p/build">>}

ScanExcludes == {<<>>, <<"build/">>, <<"(">>}

ScanTypes == {<<".cpp">>, <<>>, <<"cpp">>, <<".CPP", ".txt">>}

ReportFormats == {"text", "JSON", "html", "xml"}

\* the configuration documents that vary the scan settings and the format
ScanDocs ==
    {ScanDoc(d, e, <<".cpp">>, "text") : d \in ScanDirs, e \in ScanExcludes}
    \cup {ScanDoc(<<Root>>, <<>>, t, f) : t \in ScanTypes, f \in ReportFormats}

\* command lines that override the configuration
ScanClis ==
    {CliOptions(Root, None, None, <<>>, None),
     CliOptions(None, "/out/r.txt", "my.json", <<>>, "json"),
     CliOptions(None, None, None, <<"(">>, None),
     CliOptions(None, None, None, <<>>, "html")}

\* the scan settings, the command line and the configuration file vary; each
\* file defines one function
Scan ==
    /\ \/ cli_options = NoCliOptions /\ config_json \in ScanDocs
       \/ /\ cli_options \in ScanClis
          /\ config_json \in {ScanDoc(<<>>, <<>>, <<".cpp">>, "text"),
                              ScanDoc(<<Root>>, <<>>, <<".cpp">>, "text"),
                              NoConfig}
       \/ cli_options = NoCliOptions /\ config_json = NoConfig
    /\ fs = ScanFs
    /\ trees = [p \in {e.path : e \in {x \in ScanFs : x.kind = "file"}} |->
                    <<Cursor(1, FunctionG)>>]
    /\ front_end = [p \in DOMAIN trees |-> CleanParse]
    /\ ident_env = [p \in DOMAIN trees |-> Readable]

Init ==
    /\ pc = "start"
    /\ \/ \E t \in TreesUpTo(StructShapes, MaxNodes) \cup ScenarioTrees :
             OneFile(ConfigDoc(TRUE, TRUE, TRUE), t)
       \/ \E doc \in ConfigDocs, t \in CallTrees : OneFile(doc, t)
       \/ \E doc \in TagDocs :
             OneFile(doc, <<Cursor(1, FunctionF), Cursor(2, CallTo("fmLog"))>>)
       \/ TwoFiles
       \/ Scan
    /\ config = NoConfig
    /\ exclude_patterns = <<>>
    /\ source_files = <<>>
    /\ report = NoReport
    /\ held = {}
    /\ file_idx = 0
    /\ ident_pending = {}
    /\ ast_results = EmptyMap
    /\ log_sites_map = EmptyMap
    /\ IdleVisit
    /\ IdleRange
    /\ IdleCalc

Next ==
    \/ LoadConfig
    \/ SourceManagerNew
    \/ CollectSourceFiles
    \/ AnalyzeFail
    \/ AnalyzeBegin
    \/ ExtractVisit
    \/ ExtractReturn
    \/ AnalyzeEnd
    \/ AnalyzeDone
    \/ \E p \in DOMAIN ast_results : IdentifyBegin(p)
    \/ \E p \in DOMAIN ast_results : IdentifySkip(p)
    \/ IdentVisit
    \/ IdentReturn
    \/ IdentifyEnd
    \/ IdentifyDone
    \/ CalcBegin
    \/ \E p \in DOMAIN ast_results : CalcFile(p)
    \/ CalcFinish
    \/ GenerateReport

Spec == Init /\ [][Next]_vars

----------------------------------------------------------------------------
(* Notions the properties are stated in *)

\* a <= b in the lexicographic order on (line, column)
LexLeq(a, b) == a.line < b.line \/ (a.line = b.line /\ a.column <= b.column)

\* the location l lies in the span [s, e]
InSpan(l, s, e) == LexLeq(s, l) /\ LexLeq(l, e)

InSeq(seq, x) == \E i \in 1..Len(seq) : seq[i] = x

\* the call sites the calculator is given for a file
SitesOf(path) ==
    IF path \in DOMAIN log_sites_map THEN log_sites_map[path] ELSE <<>>

\* the percentage is the one of (covered, total)
PercentageOf(m) ==
    IF m.total = 0 THEN m.percentage = <<100, 1>>
    ELSE /\ m.percentage[2] > 0
         /\ m.percentage[1] * m.total = m.covered * 100 * m.percentage[2]

WellFormed(m) == 0 <= m.covered /\ m.covered <= m.total /\ PercentageOf(m)

FileMetrics(fc) == {fc.functions, fc.branches, fc.exceptions, fc.overall}

ProjectMetrics(pcov) ==
    {pcov.total_functions, pcov.total_branches, pcov.total_exceptions,
     pcov.project_overall}

RECURSIVE SumFiles(_, _, _)
\* the sum over the files of Field(file)
SumFiles(files, Field(_), i) ==
    IF i > Len(files) THEN 0
    ELSE Field(files[i]) + SumFiles(files, Field, i + 1)

Returned == calc_result = "Ok"

Files == project_coverage.files

----------------------------------------------------------------------------
(* Properties of the coverage calculator, under SpecCalc *)

\* C1: every CoverageMetrics of a returned ProjectCoverage, per file and
\* project-wide, has 0 <= covered <= total and the percentage of its
\* (covered, total) pair: 100 when total = 0, covered/total*100 otherwise.
\* The code breaks it on an empty ast_results map (see C6).
C1_MetricsWellFormed ==
    Returned =>
        /\ \A m \in ProjectMetrics(project_coverage) : WellFormed(m)
        /\ \A n \in 1..Len(Files) : \A m \in FileMetrics(Files[n]) : WellFormed(m)

\* the test of C2: rule (a), the qualified name, or rule (b), the span
FunctionTest(f, sites) ==
    \E i \in 1..Len(sites) :
        \/ sites[i].parent_function_qualified_name = f.qualified_name
        \/ InSpan(sites[i].source_location, f.start_location, f.end_location)

\* C2: a function with a body is counted covered if and only if some call
\* site of the file has its parent_function_qualified_name equal to the
\* function's qualified_name or its location within the function's span;
\* otherwise it is counted uncovered.
C2_FunctionCoveredIff ==
    \A n \in 1..Len(Files) :
        LET fc == Files[n]
            fns == ast_results[fc.file_path].functions
            sites == SitesOf(fc.file_path)
            body == {i \in 1..Len(fns) : fns[i].has_body}
        IN  /\ fc.functions.total = Cardinality(body)
            /\ fc.functions.covered =
                  Cardinality({i \in body : FunctionTest(fns[i], sites)})
            /\ \A i \in body :
                  FunctionTest(fns[i], sites) <=> ~InSeq(fc.uncovered_functions, fns[i])

\* C2 witness: a function covered by the name of a call site that lies
\* outside its span
C2_Witness ==
    /\ Returned
    /\ \E n \in 1..Len(Files) :
          LET fc == Files[n]
              fns == ast_results[fc.file_path].functions
              sites == SitesOf(fc.file_path)
          IN  /\ fc.functions.covered = 1
              /\ \E i \in 1..Len(fns) :
                    /\ fns[i].has_body
                    /\ \E k \in 1..Len(sites) :
                          sites[k].parent_function_qualified_name = fns[i].qualified_name
                    /\ \A k \in 1..Len(sites) :
                          ~InSpan(sites[k].source_location,
                                  fns[i].start_location, fns[i].end_location)

\* the test of C3: rule (b) alone
SpanTest(item, sites) ==
    \E i \in 1..Len(sites) :
        InSpan(sites[i].source_location, item.start_location, item.end_location)

ItemsCoveredIff(items, sites, metrics, uncovered) ==
    /\ metrics.total = Len(items)
    /\ metrics.covered =
          Cardinality({i \in 1..Len(items) : SpanTest(items[i], sites)})
    /\ \A i \in 1..Len(items) :
          SpanTest(items[i], sites) <=> ~InSeq(uncovered, items[i])

\* C3: a branch or exception item is counted covered if and only if some call
\* site of the same file lies inside the item's own span; a call site that
\* only shares its parent_function_qualified_name never covers it.
C3_ItemCoveredIff ==
    \A n \in 1..Len(Files) :
        LET fc == Files[n]
            ast == ast_results[fc.file_path]
            sites == SitesOf(fc.file_path)
        IN  /\ ItemsCoveredIff(ast.branches, sites, fc.branches,
                               fc.uncovered_branches)
            /\ ItemsCoveredIff(ast.exceptions, sites, fc.exceptions,
                               fc.uncovered_exceptions)

\* C3 witness: a branch reported uncovered although a call site of the file
\* shares its parent function name
C3_Witness ==
    /\ Returned
    /\ \E n \in 1..Len(Files) :
          LET fc == Files[n]
              sites == SitesOf(fc.file_path)
          IN  \E i \in 1..Len(fc.uncovered_branches) :
                 \E k \in 1..Len(sites) :
                    sites[k].parent_function_qualified_name =
                       fc.uncovered_branches[i].parent_function_qualified_name

FnTotal(fc) == fc.functions.total

FnCovered(fc) == fc.functions.covered

BrTotal(fc) == fc.branches.total

BrCovered(fc) == fc.branches.covered

ExTotal(fc) == fc.exceptions.total

ExCovered(fc) == fc.exceptions.covered

\* C5: in a returned ProjectCoverage the project totals of each category are
\* the sums of the per-file values, project_overall is the sum of the three
\* categories, and each file's overall is the sum of its three categories.
C5_SummationLaw ==
    Returned =>
        LET pcov == project_coverage
        IN  /\ pcov.total_functions.total = SumFiles(Files, FnTotal, 1)
            /\ pcov.total_functions.covered = SumFiles(Files, FnCovered, 1)
            /\ pcov.total_branches.total = SumFiles(Files, BrTotal, 1)
            /\ pcov.total_branches.covered = SumFiles(Files, BrCovered, 1)
            /\ pcov.total_exceptions.total = SumFiles(Files, ExTotal, 1)
            /\ pcov.total_exceptions.covered = SumFiles(Files, ExCovered, 1)
            /\ pcov.project_overall.total =
                  pcov.total_functions.total + pcov.total_branches.total
                  + pcov.total_exceptions.total
            /\ pcov.project_overall.covered =
                  pcov.total_functions.covered + pcov.total_branches.covered
                  + pcov.total_exceptions.covered
            /\ \A n \in 1..Len(Files) :
                  /\ Files[n].overall.total =
                        FnTotal(Files[n]) + BrTotal(Files[n]) + ExTotal(Files[n])
                  /\ Files[n].overall.covered =
                        FnCovered(Files[n]) + BrCovered(Files[n])
                        + ExCovered(Files[n])

\* C5 witness: a returned project of two files that both have items, of two
\* categories
C5_Witness ==
    /\ Returned
    /\ Len(Files) = 2
    /\ Files[1].overall.total > 0
    /\ Files[2].overall.total > 0
    /\ project_coverage.total_functions.total > 0
    /\ project_coverage.total_functions.total < project_coverage.project_overall.total

\* C6: with an empty ast_results map calculate_project_coverage returns Ok
\* with no files and all four project metrics 0/0 at 100 percent.
\* The code returns ProjectCoverage::default(), whose percentages are 0.0.
C6_EmptyProject ==
    (Returned /\ ast_results = EmptyMap) =>
        /\ Files = <<>>
        /\ \A m \in ProjectMetrics(project_coverage) :
              m.total = 0 /\ m.covered = 0 /\ m.percentage = <<100, 1>>

RECURSIVE WithBody(_, _)
\* the functions with a body, in order
WithBody(fns, i) ==
    IF i > Len(fns) THEN <<>>
    ELSE (IF fns[i].has_body THEN <<fns[i]>> ELSE <<>>) \o WithBody(fns, i + 1)

\* C7: a file with no entry in the call-site map, or with an empty list, has
\* covered = 0 in the three categories, and all its functions with a body,
\* branches and exception blocks are in the uncovered lists.
C7_NoCallSites ==
    \A n \in 1..Len(Files) :
        LET fc == Files[n]
            ast == ast_results[fc.file_path]
        IN  (fc.file_path \notin DOMAIN log_sites_map
             \/ log_sites_map[fc.file_path] = <<>>) =>
                /\ fc.functions.covered = 0
                /\ fc.branches.covered = 0
                /\ fc.exceptions.covered = 0
                /\ fc.uncovered_functions = WithBody(ast.functions, 1)
                /\ fc.uncovered_branches = ast.branches
                /\ fc.uncovered_exceptions = ast.exceptions

\* C7 witness: a file with one function and no entry in the call-site map,
\* reported 0/1 at 0 percent, while another file has a call site
C7_Witness ==
    /\ Returned
    /\ \E n \in 1..Len(Files) :
          /\ Files[n].file_path \notin DOMAIN log_sites_map
          /\ Files[n].functions.total = 1
          /\ Files[n].functions.covered = 0
          /\ Files[n].functions.percentage = <<0, 1>>
          /\ Len(Files[n].uncovered_functions) = 1
    /\ \E q \in DOMAIN log_sites_map : log_sites_map[q] # <<>>

----------------------------------------------------------------------------
(* Properties of is_location_within_range, under SpecRange *)

\* C4: is_location_within_range(L, S, E) is true exactly when S <= L <= E in
\* the lexicographic order on (line, column); so for a span with S <= E the
\* locations S and E are contained, and the location one column before S on
\* S's line and the one one column after E on E's line are not.
C4_RangeIsLexInterval ==
    pc = "ranged" =>
        /\ range_result = (LexLeq(item_start_loc, log_loc)
                           /\ LexLeq(log_loc, item_end_loc))
        /\ (LexLeq(item_start_loc, item_end_loc)
            /\ (log_loc = item_start_loc \/ log_loc = item_end_loc))
               => range_result
        /\ (log_loc.line = item_start_loc.line
            /\ log_loc.column = item_start_loc.column - 1) => ~range_result
        /\ (log_loc.line = item_end_loc.line
            /\ log_loc.column = item_end_loc.column + 1) => ~range_result

\* C4 witness: a location equal to the end of a span of two lines is contained
C4_Witness ==
    /\ pc = "ranged"
    /\ item_start_loc.line < item_end_loc.line
    /\ log_loc = item_end_loc
    /\ range_result

----------------------------------------------------------------------------
(* Properties of the run of main, under Spec *)

\* the tree of the file the running traversal works on
TheTree == trees[cur_file]

\* the PerFileCoverage reported for a file
FileCoverageOf(path) ==
    Files[CHOOSE k \in 1..Len(Files) : Files[k].file_path = path]

\* cursor i lies below cursor a
Under(t, a, i) == a < i /\ i <= LastDesc(t, a, a)

IsDefinition(t, i) ==
    t[i].main /\ t[i].kind \in {"FunctionDecl", "CXXMethod"} /\ t[i].is_def

BranchCursors ==
    {"IfStmt", "SwitchStmt", "CaseStmt", "DefaultStmt", "ForStmt",
     "WhileStmt", "DoStmt"}

ExceptionCursors == {"CXXTryStmt", "CXXCatchStmt"}

IsConstruct(t, i) ==
    t[i].main /\ t[i].kind \in BranchCursors \cup ExceptionCursors

GlobalRule(name) ==
    config.log_functions.qt.enabled
    /\ InSeq(config.log_functions.qt.functions, name)

CategoryListed(name) == InSeq(config.log_functions.qt.category_functions, name)

CustomRule(name) ==
    config.log_functions.custom.enabled
    /\ \E l \in DOMAIN config.log_functions.custom.functions :
          InSeq(config.log_functions.custom.functions[l], name)

\* the name is one of an enabled list of logging functions
ConfiguredName(name) ==
    \/ GlobalRule(name)
    \/ (config.log_functions.qt.enabled /\ CategoryListed(name))
    \/ CustomRule(name)

IsLoggingCall(t, i) ==
    t[i].main /\ t[i].kind = "CallExpr" /\ ConfiguredName(t[i].callee)

HasSpan(path, item, i) ==
    /\ item.start_location = ExtentStart(path, trees[path], i)
    /\ item.end_location = ExtentEnd(path, trees[path], i)

\* some item of the list with the extent of cursor i is not reported uncovered
CountedCovered(path, items, uncovered, i) ==
    \E k \in 1..Len(items) :
        HasSpan(path, items[k], i) /\ ~InSeq(uncovered, items[k])

\* the function that encloses a covered item and bears the name the item is
\* attributed to is covered
ParentCovered(items, uncovered, fc, ast) ==
    \A k \in 1..Len(items) :
        ~InSeq(uncovered, items[k]) =>
            \E j \in 1..Len(ast.functions) :
                /\ ast.functions[j].qualified_name =
                      items[k].parent_function_qualified_name
                /\ InSpan(items[k].start_location,
                          ast.functions[j].start_location,
                          ast.functions[j].end_location)
                /\ ~InSeq(fc.uncovered_functions, ast.functions[j])

\* C8: when a logging call lies inside a branch or try/catch construct that
\* lies inside a function definition f of an analyzed and identified file,
\* the run counts the construct as covered and f as covered; and a covered
\* branch or exception item has the function it is attributed to covered.
C8_CallCoversConstructAndFunction ==
    Returned =>
        \A p \in (DOMAIN ast_results) \cap (DOMAIN log_sites_map) :
            LET t == trees[p]
                fc == FileCoverageOf(p)
                ast == ast_results[p]
            IN  /\ \A c \in 1..Len(t), b \in 1..Len(t), f \in 1..Len(t) :
                      (/\ IsLoggingCall(t, c)
                       /\ IsConstruct(t, b) /\ Under(t, b, c)
                       /\ IsDefinition(t, f) /\ Under(t, f, b)) =>
                          /\ IF t[b].kind \in BranchCursors
                             THEN CountedCovered(p, ast.branches,
                                                 fc.uncovered_branches, b)
                             ELSE CountedCovered(p, ast.exceptions,
                                                 fc.uncovered_exceptions, b)
                          /\ CountedCovered(p, ast.functions,
                                            fc.uncovered_functions, f)
                /\ ParentCovered(ast.branches, fc.uncovered_branches, fc, ast)
                /\ ParentCovered(ast.exceptions, fc.uncovered_exceptions,
                                 fc, ast)

\* C8 witness: one function, one if in it, one logging call in the if:
\* functions 1/1 and branches 1/1, both at 100 percent
C8_Witness ==
    /\ Returned
    /\ DOMAIN trees = {MainFile}
    /\ trees[MainFile] = <<Cursor(1, FunctionF), Cursor(2, IfStmt),
                           Cursor(3, CallTo("qDebug"))>>
    /\ Files[1].functions = [total |-> 1, covered |-> 1, percentage |-> <<100, 1>>]
    /\ Files[1].branches = [total |-> 1, covered |-> 1, percentage |-> <<100, 1>>]

\* the identifier has just been called on a call expression of the main file
JustVisitedCall ==
    /\ pc = "ident_visit"
    /\ cursor > 1
    /\ Len(stack) = TheTree[cursor - 1].depth
    /\ TheTree[cursor - 1].main
    /\ TheTree[cursor - 1].kind = "CallExpr"

VisitedCallee == TheTree[cursor - 1].callee

\* a function context was active when the callback was entered
InFunction == stack[Len(stack)].original_function_qname # None

\* the call sites recorded for the call expression just visited
Emitted ==
    {k \in 1..Len(context.log_call_sites) :
        context.log_call_sites[k].source_location =
            CursorLocation(cur_file, TheTree, cursor - 1)}

\* C9: for one call expression the rules are tried in the order built-in
\* global, built-in category, custom, the first match wins and at most one
\* LogCallSite is recorded; a callee in the enabled built-in global list and
\* in an enabled custom list is classified Qt (built-in global), never Custom.
C9_FirstMatchWins ==
    JustVisitedCall =>
        LET name == VisitedCallee
            g == GlobalRule(name)
            c == config.log_functions.qt.enabled /\ CategoryListed(name)
            u == CustomRule(name)
        IN  /\ Cardinality(Emitted) <= 1
            /\ Cardinality(Emitted) = 1 <=> (InFunction /\ (g \/ c \/ u))
            /\ \A k \in Emitted :
                  /\ context.log_call_sites[k].function_name = name
                  /\ context.log_call_sites[k].log_type =
                        IF g THEN "Qt" ELSE IF c THEN "QtCategory" ELSE "Custom"

\* C9 witness: a call of qDebug, listed as built-in global and under a custom
\* level, both enabled, recorded as Qt
C9_Witness ==
    /\ JustVisitedCall
    /\ VisitedCallee = "qDebug"
    /\ GlobalRule("qDebug")
    /\ CustomRule("qDebug")
    /\ \E k \in Emitted : context.log_call_sites[k].log_type = "Qt"

\* a call in a function, of a listed category function that the built-in
\* global rule does not match
CategoryCase ==
    /\ JustVisitedCall
    /\ InFunction
    /\ CategoryListed(VisitedCallee)
    /\ ~GlobalRule(VisitedCallee)

\* the level of a category function: from its qC prefix, never Fatal
CategoryLevelOf(name, level) ==
    /\ level # "Fatal"
    /\ StartsWith(name, "qCDebug") => level = "Debug"
    /\ StartsWith(name, "qCInfo") => level = "Info"
    /\ StartsWith(name, "qCWarning") => level = "Warning"
    /\ StartsWith(name, "qCCritical") => level = "Critical"

CategoryClassified(flag) ==
    /\ flag <=> \E k \in Emitted :
                   context.log_call_sites[k].log_type = "QtCategory"
    /\ \A k \in Emitted :
          context.log_call_sites[k].log_type = "QtCategory" =>
              CategoryLevelOf(VisitedCallee, context.log_call_sites[k].log_level)

SameIgnoringCase(a, b) ==
    /\ Len(a) = Len(b)
    /\ \A i \in 1..Len(a) :
          LET x == SubSeq(a, i, i)
              y == SubSeq(b, i, i)
          IN  \/ x = y
              \/ x \in DOMAIN UpperToLower /\ UpperToLower[x] = y
              \/ y \in DOMAIN UpperToLower /\ UpperToLower[y] = x

\* the level a level tag stands for
LevelOfTag(tag, level) ==
    /\ SameIgnoringCase(tag, "debug") => level = "Debug"
    /\ SameIgnoringCase(tag, "info") => level = "Info"
    /\ (SameIgnoringCase(tag, "warning") \/ SameIgnoringCase(tag, "warn")) =>
          level = "Warning"
    /\ (SameIgnoringCase(tag, "error") \/ SameIgnoringCase(tag, "critical")) =>
          level = "Critical"
    /\ SameIgnoringCase(tag, "fatal") => level = "Fatal"

\* the level tags whose list names the function
TagsOf(name) ==
    {l \in DOMAIN config.log_functions.custom.functions :
        InSeq(config.log_functions.custom.functions[l], name)}

\* C11: with custom logging enabled, a call in a function that no built-in
\* rule matches and whose callee is listed under a custom level tag is
\* recorded with LogType Custom and the level its tag stands for, read
\* case-insensitively (debug, info, warning or warn, error or critical,
\* fatal); with custom logging disabled no call site is Custom.
C11_CustomLevelFromTag ==
    /\ JustVisitedCall =>
          LET name == VisitedCallee
              builtin == config.log_functions.qt.enabled
                         /\ (InSeq(config.log_functions.qt.functions, name)
                             \/ CategoryListed(name))
          IN  /\ (InFunction /\ ~builtin /\ CustomRule(name)) =>
                    \E k \in Emitted :
                        context.log_call_sites[k].log_type = "Custom"
              /\ \A k \in Emitted :
                    context.log_call_sites[k].log_type = "Custom" =>
                        /\ config.log_functions.custom.enabled
                        /\ \E l \in TagsOf(name) :
                              LevelOfTag(l, context.log_call_sites[k].log_level)
    /\ (pc = "ident_visit" /\ ~config.log_functions.custom.enabled) =>
          \A k \in 1..Len(context.log_call_sites) :
              context.log_call_sites[k].log_type # "Custom"

\* C11 witness: fmLog, listed under the one tag ERROR, recorded as Custom at
\* level Critical
C11_Witness ==
    /\ JustVisitedCall
    /\ VisitedCallee = "fmLog"
    /\ DOMAIN config.log_functions.custom.functions = {"ERROR"}
    /\ \E k \in Emitted :
          /\ context.log_call_sites[k].log_type = "Custom"
          /\ context.log_call_sites[k].log_level = "Critical"

\* the innermost function definition of the analyzed file that encloses
\* cursor i; 0 if there is none
EnclosingDefinition(t, i) ==
    LET defs == {a \in 1..Len(t) : IsDefinition(t, a) /\ Under(t, a, i)}
    IN  IF defs = {} THEN 0 ELSE CHOOSE a \in defs : \A b \in defs : b <= a

\* the qualified name of a definition: its unique symbol signature, or its
\* simple name when it has none
NameOfDefinition(node) == IF node.usr # "" THEN node.usr ELSE node.name

\* C12: a call expression that no function definition of the analyzed file
\* encloses (top-level code, code after a function) produces no LogCallSite,
\* even when its callee is a configured logging function; a LogCallSite that
\* is produced carries the qualified name of the innermost function
\* definition that encloses the call.
C12_CallNeedsFunctionContext ==
    JustVisitedCall =>
        LET a == EnclosingDefinition(TheTree, cursor - 1)
        IN  /\ a = 0 => Emitted = {}
            /\ \A k \in Emitted :
                  /\ a # 0
                  /\ context.log_call_sites[k].parent_function_qualified_name
                        = NameOfDefinition(TheTree[a])

\* C12 witness: a call of the enabled built-in qDebug follows the definition
\* of f as a sibling and is not recorded; the call made in f was recorded
C12_Witness ==
    /\ JustVisitedCall
    /\ cursor - 1 = 3
    /\ TheTree[1] = Cursor(1, FunctionF)
    /\ TheTree[3] = Cursor(1, CallTo("qDebug"))
    /\ GlobalRule("qDebug")
    /\ Emitted = {}
    /\ Len(context.log_call_sites) = 1

\* the call expressions of the analyzed file, visited so far, that a call
\* site stands for: same location, same callee, a configured logging function
CallsOf(site) ==
    {i \in 1..(cursor - 1) :
        /\ TheTree[i].main
        /\ TheTree[i].kind = "CallExpr"
        /\ CursorLocation(cur_file, TheTree, i) = site.source_location
        /\ TheTree[i].callee = site.function_name
        /\ ConfiguredName(TheTree[i].callee)}

\* C13: every LogCallSite the identifier has recorded stands for exactly one
\* call expression of a configured logging function and has a LogType other
\* than Unknown; no call has two entries; a call whose callee is in no
\* enabled list has no entry.
C13_OneEntryPerRecognizedCall ==
    pc = "ident_visit" =>
        LET sites == context.log_call_sites
        IN  /\ \A k \in 1..Len(sites) :
                  /\ sites[k].log_type \in {"Qt", "QtCategory", "Custom"}
                  /\ Cardinality(CallsOf(sites[k])) = 1
            /\ \A k1, k2 \in 1..Len(sites) :
                  sites[k1].source_location = sites[k2].source_location =>
                      k1 = k2
            /\ \A i \in 1..(cursor - 1) :
                  (/\ TheTree[i].main
                   /\ TheTree[i].kind = "CallExpr"
                   /\ ~ConfiguredName(TheTree[i].callee)) =>
                      \A k \in 1..Len(sites) :
                          sites[k].source_location
                              # CursorLocation(cur_file, TheTree, i)

\* C13 witness: f calls foo and qDebug; the one entry is the one of qDebug
C13_Witness ==
    /\ pc = "ident_visit"
    /\ cursor = 4
    /\ TheTree = <<Cursor(1, FunctionF), Cursor(2, CallTo("foo")),
                   Cursor(2, CallTo("qDebug"))>>
    /\ Len(context.log_call_sites) = 1
    /\ context.log_call_sites[1].function_name = "qDebug"
    /\ context.log_call_sites[1].log_type = "Qt"

\* the front end reports a diagnostic of severity Error or Fatal
HasErrorDiagnostic(r) ==
    \E i \in 1..Len(r.diagnostics) : r.diagnostics[i] \in {"Error", "Fatal"}

\* analyze_files has returned
Analyzed ==
    pc \in {"identify", "ident_visit", "ready", "loop", "done", "finished"}
    /\ source_files # <<>>

\* C14: a file for which the front end reports an Error or Fatal diagnostic
\* never has a FileAstInfo in the analysis results; analyze_files goes
\* through all the source files all the same, so that once it has returned
\* every collected file that parsed without such a failure has its
\* FileAstInfo stored.
C14_ParseFailureIsPerFile ==
    /\ \A p \in DOMAIN front_end :
          HasErrorDiagnostic(front_end[p]) => p \notin DOMAIN ast_results
    /\ Analyzed =>
          \A i \in 1..Len(source_files) :
              LET p == source_files[i]
              IN  (~front_end[p].tu_null /\ ~HasErrorDiagnostic(front_end[p]))
                      => /\ p \in DOMAIN ast_results
                         /\ ast_results[p].file_path = p

\* C14 witness: the first file has a warning and an error, the second one
\* parses; analyze_files has returned with the second file's results only
C14_Witness ==
    /\ pc = "identify"
    /\ source_files = <<MainFile, OtherFile>>
    /\ front_end[MainFile].diagnostics = <<"Warning", "Error">>
    /\ DOMAIN ast_results = {OtherFile}
    /\ Len(ast_results[OtherFile].functions) = 1

\* the content of the file cannot be read for identification, or its
\* identification fails
NotIdentifiable(r) ==
    ~r.readable \/ r.has_nul \/ r.tu_null \/ HasErrorDiagnostic(r)

\* the files the reported ProjectCoverage has an entry for
ReportedFiles == {Files[k].file_path : k \in 1..Len(Files)}

\* C15: a file whose content cannot be read when it is fetched for
\* identification, or whose identification fails, is skipped like a file
\* that fails to parse: the ProjectCoverage has no entry for it and counts
\* none of its items, while every other extracted file is identified and
\* reported.
C15_UnreadableFileSkipped ==
    Returned =>
        /\ \A p \in DOMAIN ast_results :
              IF NotIdentifiable(ident_env[p])
              THEN p \notin ReportedFiles
              ELSE p \in DOMAIN log_sites_map /\ p \in ReportedFiles
        /\ project_coverage.total_functions.total =
              SumFiles(Files, FnTotal, 1)
        /\ \A k \in 1..Len(Files) :
              ~NotIdentifiable(ident_env[Files[k].file_path])

\* the configuration document the run works with: the one of the file, or
\* the built-in defaults when there is no file and none was asked for
Document == IF config_json # NoConfig THEN config_json ELSE get_default_config

\* the settings in effect, the command line taking precedence
EffectiveDirectories ==
    IF cli_options.directory # None THEN <<cli_options.directory>>
    ELSE Document.scan.directories

EffectiveExcludes ==
    IF cli_options.exclude # <<>> THEN cli_options.exclude
    ELSE Document.scan.excludes

EffectiveFormat ==
    IF cli_options.format # None THEN cli_options.format
    ELSE Document.report.format

\* the tool has a reporter for the format
Renderable(format) ==
    SameIgnoringCase(format, "text") \/ SameIgnoringCase(format, "json")

\* an empty scan list, a malformed exclude pattern or a report format the
\* tool cannot render
BadConfiguration ==
    \/ EffectiveDirectories = <<>>
    \/ \E i \in 1..Len(EffectiveExcludes) : ~RegexCompiles(EffectiveExcludes[i])
    \/ ~Renderable(EffectiveFormat)

\* neither the extractor nor the identifier has parsed a file
NothingParsed ==
    /\ pc \notin {"extract", "ident_visit"}
    /\ file_idx <= 1
    /\ ast_results = EmptyMap

\* C16: with an empty scan list, a malformed exclude pattern or a report
\* format the tool cannot render, the run ends at startup: no source file is
\* ever parsed by the extractor or the identifier and no report is emitted.
C16_BadConfigurationIsFatalAtStartup ==
    BadConfiguration => (NothingParsed /\ report = NoReport)

\* the collected files the extractor could parse
Extracted ==
    {source_files[i] : i \in
        {j \in 1..Len(source_files) :
            LET r == front_end[source_files[j]]
            IN  ~r.tu_null /\ ~HasErrorDiagnostic(r)}}

\* some collected file failed extraction and at least one succeeded
PartialFailure ==
    /\ Analyzed
    /\ Extracted # {}
    /\ Extracted # {source_files[i] : i \in 1..Len(source_files)}

HasFileType(path, file_type) ==
    /\ Len(path) > Len(file_type)
    /\ SameIgnoringCase(
          SubSeq(path, Len(path) - Len(file_type) + 1, Len(path)), file_type)

\* a regular file of the file system with one of the configured file types
\* that no exclude pattern matches
Admissible(path) ==
    /\ \E e \in fs : e.path = path /\ e.kind = "file"
    /\ \E i \in 1..Len(config.scan.file_types) :
          HasFileType(path, config.scan.file_types[i])
    /\ \A i \in 1..Len(config.scan.excludes) :
          ~RegexIsMatch(config.scan.excludes[i], path)

\* the files the extractor, the identifier and the calculator have been
\* given so far
PassedOn ==
    (DOMAIN ast_results) \cup (DOMAIN log_sites_map)
    \cup (IF pc \in {"extract", "ident_visit"} THEN {cur_file} ELSE {})
    \cup (IF Returned THEN ReportedFiles ELSE {})

\* C18: every file collect_source_files returns is a regular file whose
\* extension is one of the configured file types, letter case ignored, and
\* whose absolute path no exclude pattern matches; no other file is ever
\* given to the extractor, the identifier or the calculator.
C18_CollectedFilesAdmissible ==
    /\ \A i \in 1..Len(source_files) : Admissible(source_files[i])
    /\ \A p \in PassedOn : Admissible(p)

\* C18 witness: of the entries under /p, with file type .cpp and build/
\* excluded, a.cpp and b.CPP were collected; c.txt, Makefile, the directory
\* d.cpp, the symbolic link l.cpp and build/g.cpp were not
C18_Witness ==
    /\ pc = "analyze"
    /\ fs = ScanFs
    /\ config.scan.file_types = <<".cpp">>
    /\ config.scan.excludes = <<"build/">>
    /\ Len(source_files) = 2
    /\ {source_files[1], source_files[2]} = {MainFile, "/p/b.CPP"}

\* one of the two traversals is under way
Traversing == pc \in {"extract", "ident_visit"}

\* the cursors that have been entered and whose subtree is not done yet
OpenCursors ==
    {a \in 1..(cursor - 1) :
        /\ TheTree[a].depth <= Len(stack)
        /\ a = cursor - 1 \/ Under(TheTree, a, cursor - 1)}

\* the innermost of the given cursors, 0 if there is none
Innermost(cursors) ==
    IF cursors = {} THEN 0 ELSE CHOOSE a \in cursors : \A b \in cursors : b <= a

OpenDefinition == Innermost({a \in OpenCursors : IsDefinition(TheTree, a)})

OpenClass ==
    Innermost({a \in OpenCursors :
                  /\ TheTree[a].main
                  /\ TheTree[a].kind \in {"ClassDecl", "StructDecl"}})

\* the (function, class) context of the traversal under way
CurrentFunction ==
    IF pc = "extract" THEN data.current_function_qname
    ELSE context.current_parent_function_qname

CurrentClass ==
    IF pc = "extract" THEN data.current_class_name
    ELSE context.current_parent_class_name

\* C19: in both traversals the (function, class) context depends on the
\* cursors of the analyzed file that are entered and not yet done, and on
\* nothing else: the function context is the qualified name of the innermost
\* such function definition, the class context the name of the innermost
\* such class or struct, and each is None when there is none. Hence once a
\* cursor and its whole subtree are done the context is what it was before
\* the cursor was entered, a sibling that follows a function definition is
\* not in the context of that function, and after the whole traversal both
\* contexts are None.
C19_ContextRestored ==
    Traversing =>
        /\ CurrentFunction =
              IF OpenDefinition = 0 THEN None
              ELSE NameOfDefinition(TheTree[OpenDefinition])
        /\ CurrentClass =
              IF OpenClass = 0 THEN None ELSE TheTree[OpenClass].name
        /\ (stack = <<>> /\ cursor > Len(TheTree)) =>
              CurrentFunction = None /\ CurrentClass = None

\* C19 witness: the identifier is at the call that follows class K as a
\* sibling, after the method m of K and the loop and the call in it were
\* visited; both contexts are None again
C19_Witness ==
    /\ pc = "ident_visit"
    /\ cursor - 1 = 5
    /\ Len(stack) = 1
    /\ TheTree[1].kind = "ClassDecl"
    /\ TheTree[2].kind = "CXXMethod"
    /\ TheTree[5] = Cursor(1, CallTo("qDebug"))
    /\ Len(context.log_call_sites) = 1
    /\ context.log_call_sites[1].containing_class_name = "K"
    /\ context.current_parent_function_qname = None
    /\ context.current_parent_class_name = None

\* the type word of a branch or exception handling construct
KindWord(kind) ==
    CASE kind = "IfStmt" -> "if"
      [] kind = "SwitchStmt" -> "switch"
      [] kind = "CaseStmt" -> "case"
      [] kind = "DefaultStmt" -> "default"
      [] kind = "ForStmt" -> "for"
      [] kind = "WhileStmt" -> "while"
      [] kind = "DoStmt" -> "do_while"
      [] kind = "CXXTryStmt" -> "try"
      [] kind = "CXXCatchStmt" -> "catch"

\* the entries of a list of BranchInfo or ExceptionInfo that have the extent
\* of cursor i
EntriesFor(items, i) ==
    {k \in 1..Len(items) :
        /\ items[k].start_location = ExtentStart(cur_file, TheTree, i)
        /\ items[k].end_location = ExtentEnd(cur_file, TheTree, i)}

\* the branch and exception constructs of the analyzed file visited so far
VisitedConstructs == {i \in 1..(cursor - 1) : IsConstruct(TheTree, i)}

\* C20: for every if, switch, case, default, for, while, do-while, try and
\* catch construct of the analyzed file that the extractor has visited and
\* that a function definition of the file encloses there is exactly one
\* entry, a BranchInfo for the first seven kinds and an ExceptionInfo for try
\* and catch, of the construct's type word and extent, whose parent is the
\* qualified name of the innermost enclosing function definition; a
\* construct that no function definition encloses has no entry, and there
\* are no other entries.
C20_OneEntryPerConstruct ==
    pc = "extract" =>
        LET branches == data.ast_info.branches
            exceptions == data.ast_info.exceptions
        IN  /\ \A i \in VisitedConstructs :
                  LET a == EnclosingDefinition(TheTree, i)
                      own == IF TheTree[i].kind \in BranchCursors
                             THEN EntriesFor(branches, i)
                             ELSE EntriesFor(exceptions, i)
                      other == IF TheTree[i].kind \in BranchCursors
                               THEN EntriesFor(exceptions, i)
                               ELSE EntriesFor(branches, i)
                  IN  /\ other = {}
                      /\ IF a = 0 THEN own = {}
                         ELSE /\ Cardinality(own) = 1
                              /\ \A k \in own :
                                    IF TheTree[i].kind \in BranchCursors
                                    THEN /\ branches[k].parent_function_qualified_name
                                               = NameOfDefinition(TheTree[a])
                                         /\ branches[k].branch_type
                                               = KindWord(TheTree[i].kind)
                                    ELSE /\ exceptions[k].parent_function_qualified_name
                                               = NameOfDefinition(TheTree[a])
                                         /\ exceptions[k].exception_type
                                               = KindWord(TheTree[i].kind)
            /\ Len(branches) + Len(exceptions) =
                  Cardinality({i \in VisitedConstructs :
                                  EnclosingDefinition(TheTree, i) # 0})

\* C20 witness: in g a try with its catch, a for and a do-while were
\* visited; there are two ExceptionInfo and two BranchInfo, all of parent g
C20_Witness ==
    /\ pc = "extract"
    /\ cursor > 7
    /\ TheTree[1] = Cursor(1, FunctionG)
    /\ TheTree[4].kind = "CXXCatchStmt"
    /\ TheTree[7].kind = "DoStmt"
    /\ Len(data.ast_info.exceptions) = 2
    /\ data.ast_info.exceptions[2].exception_type = "catch"
    /\ Len(data.ast_info.branches) = 2
    /\ data.ast_info.branches[2].branch_type = "do_while"
    /\ data.ast_info.branches[2].parent_function_qualified_name = "g"

\* the function definitions of the analyzed file among the first n cursors
\* of a tree, in the order of the traversal
DefinitionsIn(t, n) == {i \in 1..n : IsDefinition(t, i)}

\* the number of definitions among the first i cursors
DefinitionRank(t, i) == Cardinality(DefinitionsIn(t, i))

\* a function or method declaration of the analyzed file without a body
IsBodilessDeclaration(t, i) ==
    t[i].main /\ t[i].kind \in {"FunctionDecl", "CXXMethod"} /\ ~t[i].is_def

\* the extractor has just entered cursor i
JustEntered(i) ==
    pc = "extract" /\ cursor = i + 1 /\ Len(stack) = TheTree[i].depth

\* C21: the functions list of the extractor holds, at every moment of the
\* traversal, one FunctionInfo for each function definition of the analyzed
\* file entered so far, in the order of entry, with has_body true, and
\* nothing for a declaration without a body; on entering a definition its
\* qualified name is the function context, on entering a declaration without
\* a body the context stays what it was. The function total reported for a
\* file is the number of definitions of its tree.
C21_OnlyDefinitionsAreFunctions ==
    /\ pc = "extract" =>
          LET functions == data.ast_info.functions
          IN  /\ Len(functions) = DefinitionRank(TheTree, cursor - 1)
              /\ \A k \in 1..Len(functions) : functions[k].has_body
              /\ \A i \in DefinitionsIn(TheTree, cursor - 1) :
                    LET f == functions[DefinitionRank(TheTree, i)]
                    IN  /\ f.qualified_name = NameOfDefinition(TheTree[i])
                        /\ f.name = TheTree[i].name
                        /\ f.start_location = ExtentStart(cur_file, TheTree, i)
                        /\ f.end_location = ExtentEnd(cur_file, TheTree, i)
              /\ \A i \in 1..(cursor - 1) :
                    JustEntered(i) =>
                        /\ IsDefinition(TheTree, i) =>
                              data.current_function_qname
                                  = NameOfDefinition(TheTree[i])
                        /\ IsBodilessDeclaration(TheTree, i) =>
                              data.current_function_qname
                                  = stack[Len(stack)].original_function_qname
    /\ \A p \in DOMAIN ast_results :
          /\ \A k \in 1..Len(ast_results[p].functions) :
                ast_results[p].functions[k].has_body
          /\ Len(ast_results[p].functions)
                = DefinitionRank(trees[p], Len(trees[p]))
          /\ Returned =>
                FileCoverageOf(p).functions.total
                    = DefinitionRank(trees[p], Len(trees[p]))

\* C21 witness: the declaration of d without a body was passed and the
\* definition of f has just been entered; f is the only FunctionInfo and the
\* function context
C21_Witness ==
    /\ JustEntered(2)
    /\ IsBodilessDeclaration(TheTree, 1)
    /\ TheTree[2] = Cursor(1, FunctionF)
    /\ Len(data.ast_info.functions) = 1
    /\ data.ast_info.functions[1].name = "f"
    /\ data.current_function_qname = "c:@F@f#"

\* cursor i of the analyzed file lies below a cursor of another file
BelowHeaderCursor(t, i) ==
    t[i].main /\ \E a \in 1..(i - 1) : ~t[a].main /\ Under(t, a, i)

\* the cursor just entered, 0 at the start of a traversal
EnteredCursor ==
    IF cursor > 1 /\ Len(stack) = TheTree[cursor - 1].depth
    THEN cursor - 1 ELSE 0

\* every item recorded so far is located in the analyzed file
ItemsInAnalyzedFile ==
    IF pc = "extract"
    THEN /\ \A k \in 1..Len(data.ast_info.functions) :
               data.ast_info.functions[k].start_location.file_path = cur_file
         /\ \A k \in 1..Len(data.ast_info.branches) :
               data.ast_info.branches[k].start_location.file_path = cur_file
         /\ \A k \in 1..Len(data.ast_info.exceptions) :
               data.ast_info.exceptions[k].start_location.file_path = cur_file
    ELSE \A k \in 1..Len(context.log_call_sites) :
               context.log_call_sites[k].source_location.file_path = cur_file

\* cursor i of the analyzed file has its item, recorded in the context of
\* the innermost function definition of the analyzed file around it
ProcessedInContext(i) ==
    LET a == EnclosingDefinition(TheTree, i)
    IN  IF pc = "extract"
        THEN /\ IsDefinition(TheTree, i) =>
                   \E k \in 1..Len(data.ast_info.functions) :
                       /\ data.ast_info.functions[k].start_location
                             = ExtentStart(cur_file, TheTree, i)
                       /\ data.ast_info.functions[k].qualified_name
                             = NameOfDefinition(TheTree[i])
             /\ (IsConstruct(TheTree, i) /\ a # 0) =>
                   LET items == IF TheTree[i].kind \in BranchCursors
                                THEN data.ast_info.branches
                                ELSE data.ast_info.exceptions
                   IN  \E k \in EntriesFor(items, i) :
                           items[k].parent_function_qualified_name
                               = NameOfDefinition(TheTree[a])
        ELSE (IsLoggingCall(TheTree, i) /\ a # 0) =>
                 \E k \in 1..Len(context.log_call_sites) :
                     /\ context.log_call_sites[k].source_location
                           = CursorLocation(cur_file, TheTree, i)
                     /\ context.log_call_sites[k].parent_function_qualified_name
                           = NameOfDefinition(TheTree[a])

\* C22: in both traversals a cursor that is not of the analyzed file records
\* no item and leaves the function and class context as they were on entry,
\* and the cursors below it are visited all the same: every function
\* definition, branch, exception construct and logging call of the analyzed
\* file below such a cursor has its item, with the context given by the
\* cursors of the analyzed file around it.
C22_HeaderCursorsTransparent ==
    Traversing =>
        /\ ItemsInAnalyzedFile
        /\ (EnteredCursor # 0 /\ ~TheTree[EnteredCursor].main) =>
              /\ CurrentFunction = stack[Len(stack)].original_function_qname
              /\ CurrentClass = stack[Len(stack)].original_class_name
        /\ \A i \in 1..(cursor - 1) :
              BelowHeaderCursor(TheTree, i) => ProcessedInContext(i)

\* C22 witness: the identifier has just recorded the call of qDebug that
\* lies below an if of a header inside f, with f as its parent function
C22_Witness ==
    /\ pc = "ident_visit"
    /\ EnteredCursor = 3
    /\ TheTree[1] = Cursor(1, FunctionF)
    /\ TheTree[2].kind = "IfStmt"
    /\ ~TheTree[2].main
    /\ TheTree[3] = Cursor(3, CallTo("qDebug"))
    /\ Len(context.log_call_sites) = 1
    /\ context.log_call_sites[1].parent_function_qualified_name = "c:@F@f#"

\* the qualified names of the FunctionInfo the extractor stored for a file
ExtractedNames(path) ==
    {ast_results[path].functions[k].qualified_name :
        k \in 1..Len(ast_results[path].functions)}

\* C23: the parent function of every LogCallSite the identifier records for
\* a file, during its traversal and in the map main keeps, is the qualified
\* name of a FunctionInfo the extractor stored for that file (the unique
\* symbol identifier, or the simple name when that is empty); a reported
\* file with at least one call site has at least one covered function.
C23_CallSiteParentIsExtractedFunction ==
    /\ pc = "ident_visit" =>
          \A k \in 1..Len(context.log_call_sites) :
              context.log_call_sites[k].parent_function_qualified_name
                  \in ExtractedNames(cur_file)
    /\ \A p \in DOMAIN log_sites_map :
          /\ p \in DOMAIN ast_results
          /\ \A k \in 1..Len(log_sites_map[p]) :
                log_sites_map[p][k].parent_function_qualified_name
                    \in ExtractedNames(p)
          /\ (Returned /\ log_sites_map[p] # <<>>) =>
                FileCoverageOf(p).functions.covered >= 1

\* C23 witness: the call of qInfo in g, whose definition has no unique
\* symbol identifier, has the parent g, the qualified name of the
\* FunctionInfo of g; the function is reported as covered
C23_Witness ==
    /\ Returned
    /\ OtherFile \in DOMAIN log_sites_map
    /\ Len(log_sites_map[OtherFile]) = 1
    /\ log_sites_map[OtherFile][1].parent_function_qualified_name = "g"
    /\ ast_results[OtherFile].functions[1].qualified_name = "g"
    /\ FileCoverageOf(OtherFile).functions.covered = 1

----------------------------------------------------------------------------
(* Further properties of the coverage calculator, under SpecCalc *)

\* the functions with a body that fail the test of C2, in input order
FailingFunctions(fns, sites) ==
    SelectSeq(fns, LAMBDA f : f.has_body /\ ~FunctionTest(f, sites))

\* the branches or exceptions that fail the span test, in input order
FailingItems(items, sites) ==
    SelectSeq(items, LAMBDA x : ~SpanTest(x, sites))

\* C24: in every PerFileCoverage, for functions, branches and exceptions,
\* covered plus the length of the uncovered list is the total, and the
\* uncovered list is the list of the items of the input FileAstInfo that fail
\* the coverage test (for functions, of those with a body), in input order.
C24_UncoveredListsExact ==
    \A n \in 1..Len(Files) :
        LET fc == Files[n]
            ast == ast_results[fc.file_path]
            sites == SitesOf(fc.file_path)
        IN  /\ fc.functions.covered + Len(fc.uncovered_functions)
                  = fc.functions.total
            /\ fc.branches.covered + Len(fc.uncovered_branches)
                  = fc.branches.total
            /\ fc.exceptions.covered + Len(fc.uncovered_exceptions)
                  = fc.exceptions.total
            /\ fc.uncovered_functions = FailingFunctions(ast.functions, sites)
            /\ fc.uncovered_branches = FailingItems(ast.branches, sites)
            /\ fc.uncovered_exceptions = FailingItems(ast.exceptions, sites)

\* C24 witness: a file with two different branches, both uncovered and
\* listed in input order
C24_Witness ==
    /\ Returned
    /\ \E n \in 1..Len(Files) :
          LET fc == Files[n]
              ast == ast_results[fc.file_path]
          IN  /\ Len(ast.branches) = 2
              /\ ast.branches[1] # ast.branches[2]
              /\ fc.uncovered_branches = ast.branches
              /\ fc.branches.covered = 0
              /\ fc.branches.total = 2

\* call sites that may be added to the list of a file
ExtraSites(path) ==
    {LogCallSite("qDebug", LocOf(path, lc), "Debug", "Qt", parent, None) :
        lc \in CalcLocs, parent \in FuncNames}

\* the second PerFileCoverage has the totals of the first, no smaller
\* covered count, and no uncovered item that the first does not have
NotLess(fc, more) ==
    /\ more.functions.total = fc.functions.total
    /\ more.branches.total = fc.branches.total
    /\ more.exceptions.total = fc.exceptions.total
    /\ more.overall.total = fc.overall.total
    /\ more.functions.covered >= fc.functions.covered
    /\ more.branches.covered >= fc.branches.covered
    /\ more.exceptions.covered >= fc.exceptions.covered
    /\ more.overall.covered >= fc.overall.covered
    /\ \A k \in 1..Len(more.uncovered_functions) :
          InSeq(fc.uncovered_functions, more.uncovered_functions[k])
    /\ \A k \in 1..Len(more.uncovered_branches) :
          InSeq(fc.uncovered_branches, more.uncovered_branches[k])
    /\ \A k \in 1..Len(more.uncovered_exceptions) :
          InSeq(fc.uncovered_exceptions, more.uncovered_exceptions[k])

\* C25: for the FileAstInfo of a reported file, the PerFileCoverage computed
\* from the file's call sites with one more call site, added at the end or
\* at the front of the list, has the same totals as the reported one, no
\* smaller covered count in any category, and lists no item as uncovered
\* that the reported one counts as covered.
C25_MonotoneInCallSites ==
    \A n \in 1..Len(Files) :
        LET fc == Files[n]
            ast == ast_results[fc.file_path]
            sites == SitesOf(fc.file_path)
        IN  \A extra \in ExtraSites(fc.file_path) :
                /\ NotLess(fc, calculate_file_coverage(ast, Append(sites, extra)))
                /\ NotLess(fc, calculate_file_coverage(ast, <<extra>> \o sites))

\* C25 witness: a file is reported with a function that its one call site
\* does not cover, and there is a call site whose addition covers it
C25_Witness ==
    /\ Returned
    /\ \E n \in 1..Len(Files) :
          LET fc == Files[n]
              ast == ast_results[fc.file_path]
              sites == SitesOf(fc.file_path)
          IN  /\ Len(sites) = 1
              /\ fc.functions.total = 1
              /\ fc.functions.covered = 0
              /\ \E extra \in ExtraSites(fc.file_path) :
                    calculate_file_coverage(ast, Append(sites, extra))
                        .functions.covered = 1

----------------------------------------------------------------------------
(* Further properties of the run of main, under Spec *)

\* the items of a FileAstInfo and the call sites are all located in the file
OwnItemsOnly(path) ==
    /\ ast_results[path].file_path = path
    /\ \A k \in 1..Len(ast_results[path].functions) :
          ast_results[path].functions[k].start_location.file_path = path
    /\ \A k \in 1..Len(ast_results[path].branches) :
          ast_results[path].branches[k].start_location.file_path = path
    /\ \A k \in 1..Len(ast_results[path].exceptions) :
          ast_results[path].exceptions[k].start_location.file_path = path
    /\ \A k \in 1..Len(SitesOf(path)) :
          SitesOf(path)[k].source_location.file_path = path

\* the number of branch and exception constructs of a tree that a function
\* definition of the analyzed file encloses
ConstructCount(t, kinds) ==
    Cardinality({i \in 1..Len(t) :
                    /\ t[i].main
                    /\ t[i].kind \in kinds
                    /\ EnclosingDefinition(t, i) # 0})

RECURSIVE SumOverPaths(_, _)
\* the sum of Field(path) over a set of paths
SumOverPaths(Field(_), paths) ==
    IF paths = {} THEN 0
    ELSE LET p == CHOOSE x \in paths : TRUE
         IN  Field(p) + SumOverPaths(Field, paths \ {p})

\* the PerFileCoverage of a file, from its own FileAstInfo and call sites
OwnCoverage(path) ==
    calculate_file_coverage(ast_results[path], SitesOf(path))

OwnFnCovered(path) == OwnCoverage(path).functions.covered

OwnBrCovered(path) == OwnCoverage(path).branches.covered

OwnExCovered(path) == OwnCoverage(path).exceptions.covered

OwnTotal(path) == OwnCoverage(path).overall.total

WithoutLevels(sites) ==
    [k \in 1..Len(sites) |-> [sites[k] EXCEPT !.log_level = "Unknown"]]

\* the callee of the call just visited is left to the custom rule, and
\* several level tags list it
SeveralTags ==
    /\ JustVisitedCall
    /\ InFunction
    /\ ~GlobalRule(VisitedCallee)
    /\ ~(config.log_functions.qt.enabled /\ CategoryListed(VisitedCallee))
    /\ config.log_functions.custom.enabled
    /\ Cardinality(TagsOf(VisitedCallee)) >= 2

\* C27: a call whose callee several custom level tags list is recorded,
\* whichever tag the iteration of the level map meets first, as exactly one
\* LogCallSite, of LogType Custom, with the call's callee, location and
\* parent function and the level of one of these tags; and the coverage
\* reported for a file is the one computed from its call sites with the
\* levels blotted out, so that no count depends on the level chosen.
C27_TagOrderOnlyChangesLevel ==
    /\ SeveralTags =>
          /\ Cardinality(Emitted) = 1
          /\ \A k \in Emitted :
                LET site == context.log_call_sites[k]
                    a == EnclosingDefinition(TheTree, cursor - 1)
                IN  /\ site.log_type = "Custom"
                    /\ site.function_name = VisitedCallee
                    /\ a # 0
                    /\ site.parent_function_qualified_name
                          = NameOfDefinition(TheTree[a])
                    /\ \E l \in TagsOf(VisitedCallee) :
                          LevelOfTag(l, site.log_level)
    /\ Returned =>
          \A n \in 1..Len(Files) :
              Files[n] = calculate_file_coverage(
                             ast_results[Files[n].file_path],
                             WithoutLevels(SitesOf(Files[n].file_path)))

\* C27 witness: fmLog is listed under the tags Warn and fatal; its call in f
\* was recorded once, as Custom, at the level Fatal
C27_Witness ==
    /\ SeveralTags
    /\ VisitedCallee = "fmLog"
    /\ TagsOf("fmLog") = {"Warn", "fatal"}
    /\ Cardinality(Emitted) = 1
    /\ \A k \in Emitted : context.log_call_sites[k].log_level = "Fatal"

OwnFnTotal(path) == Len(ast_results[path].functions)

\* some file was collected more than once
CollectedTwice ==
    \E i, j \in 1..Len(source_files) : i < j /\ source_files[i] = source_files[j]

\* C28: the files of a returned ProjectCoverage are one PerFileCoverage for
\* each path that has a FileAstInfo and none else, no path twice, also when
\* a file was collected more than once and whether or not the file has an
\* entry in the call-site map; the project's function total counts the
\* functions of each such path once.
C28_OneEntryPerPath ==
    Returned =>
        /\ ReportedFiles = DOMAIN ast_results
        /\ \A j, k \in 1..Len(Files) :
              Files[j].file_path = Files[k].file_path => j = k
        /\ project_coverage.total_functions.total
              = SumOverPaths(OwnFnTotal, DOMAIN ast_results)

\* C28 witness: with the scan directories /p and /p/build the file
\* /p/build/g.cpp was collected twice; it is reported once and its function
\* counted once
C28_Witness ==
    /\ Returned
    /\ CollectedTwice
    /\ Len(Files) = Cardinality(DOMAIN ast_results)
    /\ Len(Files) < Len(source_files)
    /\ "/p/build/g.cpp" \in ReportedFiles
    /\ project_coverage.total_functions.total = Len(Files)

\* what a traversal under way holds for its file
HeldByTraversal ==
    IF pc = "extract"
    THEN {Resource("index", "extractor", cur_file),
          Resource("translation_unit", "extractor", cur_file)}
    ELSE IF pc = "ident_visit"
    THEN {Resource("index", "identifier", cur_file),
          Resource("translation_unit", "identifier", cur_file)}
    ELSE {}

\* C29: every index, translation unit and diagnostic that
\* parse_and_visit_file or identify_log_calls_in_file acquires for a file is
\* released when the function returns, on its normal path and on every
\* error path: outside a traversal nothing is held, and a traversal holds
\* nothing of the files processed before.
C29_ResourcesReleased == held \subseteq HeldByTraversal

\* the number of entries of source_files analyze_files has handed to
\* parse_and_visit_file so far
Submitted ==
    IF pc = "extract" THEN file_idx
    ELSE IF file_idx = 0 THEN 0
    ELSE file_idx - 1

\* no path was handed to the extractor twice
ExtractorOnce ==
    \A i, j \in 1..Submitted : i # j => source_files[i] # source_files[j]

\* a file the identifier has been given is not given to it again
IdentifierOnce ==
    /\ ident_pending \cap DOMAIN log_sites_map = {}
    /\ pc = "ident_visit" => cur_file \notin DOMAIN log_sites_map

\* a run that is aborted has processed no file
AbortBeforeAnyFile ==
    pc \in {"config_error", "source_manager_error"} => NothingParsed

\* C30: within one run every file is submitted to the extractor at most
\* once and to the identifier at most once, so a file that failed is not
\* attempted again, and a run that is aborted has processed no file.
C30_NoRetries == ExtractorOnce /\ IdentifierOnce /\ AbortBeforeAnyFile

====
